---- MODULE Spec2Model ----
(***************************************************************************)
(* A model of claude-code-figma: the node normaliser and the AI-prompt     *)
(* renderer of FigmaClient, the optimiser of index.js and the extract      *)
(* command that drives them.                                               *)
(*                                                                         *)
(* JavaScript values are tagged records, so that a key that is absent, a   *)
(* key that holds undefined and a key that holds null stay three different *)
(* things.  A number is fixed-point with three decimals: the v of a number *)
(* is its value in thousandths, so that 0.4 is Milli(400) and 4 is Num(4), *)
(* that is Milli(4000).                                                    *)
(***************************************************************************)
EXTENDS Integers, Sequences, FiniteSets, TLC

VARIABLES
    node,          \* the raw node: the document of the API's answer
    properties,    \* extractNodeProperties(node), once computed
    prompt,        \* generateAIPrompt(properties), once computed
    parsed,        \* JSON.parse(JSON.stringify(properties, null, 2)), once computed
    rawResponse,   \* the argument optimizeFigmaData was called with
    optimized,     \* optimizeFigmaData(rawResponse), once computed
    options,       \* the options of the extract command
    pc,            \* where the extract command is
    metadata,      \* what fetchNodeMetadata returned
    processedData, \* the value the extract command formats
    output,        \* the formatted text
    logged,        \* what console.log has written, in order
    errors,        \* what console.error has written, in order
    written,       \* the files fs.writeFileSync has written, in order
    exitCode,      \* the exit code of the process, once it has ended
    rawColor,      \* the colour handed to formatColor
    formatted,     \* formatColor(rawColor), once computed
    twClass,       \* colorToTailwindClass(rawColor, 'bg'), once computed
    guessedType,   \* guessComponentType(node), once computed
    componentHints,      \* generateComponentHints(node), once computed
    shadowClasses,       \* extractShadowClasses(node.effects), once computed
    implementationGuide, \* generateImplementationGuide(node), once computed
    scaleInput,    \* the number handed to the Tailwind ladders
    spacing,       \* pxToTailwindSpacing(scaleInput), once computed
    tracking,      \* letterSpacingToTailwind(scaleInput), once computed
    searchId,      \* the id findNodeById looks for
    bfsQueue,      \* the queue of findNodeById
    foundNode,     \* what findNodeById returned
    tokenFile,     \* the content of the token file, Absent when there is none
    authToken,     \* what getAuthToken returned
    promptCount,   \* how many times the user was asked for a token
    figmaUrl,      \* the URL the command is given
    urlParts,      \* what parseFigmaUrl returned
    requestLog,    \* the requests made to the API, in order
    httpReply,     \* what fetch answers to FigmaClient.request
    requestOutcome,  \* what FigmaClient.request returned or raised
    paddingClasses   \* extractPaddingClasses(node), once computed

normVars  == <<node, properties, prompt, parsed, rawResponse, optimized>>
cliVars   == <<options, pc, metadata, processedData, output, logged, errors, written,
               exitCode>>
colorVars == <<rawColor, formatted, twClass>>
partVars  == <<guessedType, componentHints, shadowClasses, implementationGuide>>
scaleVars == <<scaleInput, spacing, tracking>>
findVars  == <<searchId, bfsQueue, foundNode>>
authVars  == <<tokenFile, authToken, promptCount, figmaUrl, urlParts, requestLog>>
httpVars  == <<httpReply, requestOutcome>>
toolVars  == <<findVars, authVars, httpVars, paddingClasses>>

vars == <<normVars, cliVars, colorVars, partVars, scaleVars, toolVars>>

----------------------------------------------------------------------------
(* JavaScript values *)

Undefined == [t |-> "undefined"]
Null      == [t |-> "null"]
Bool(b)   == [t |-> "boolean", v |-> b]
Milli(m)  == [t |-> "number", v |-> m]
Num(n)    == Milli(n * 1000)
Str(s)    == [t |-> "string", v |-> s]
Arr(s)    == [t |-> "array", v |-> s]
Obj(f)    == [t |-> "object", v |-> f]

\* An uncaught TypeError, as the result of an operator that raised it.
Throw     == [t |-> "throw"]

\* What a variable holds before the step that computes it has run.
NotYet    == [t |-> "notyet"]

EmptyObj  == Obj(<<>>)

IsThrow(x) == x.t = "throw"

\* o.k: undefined when the key is absent.
Get(o, k) == IF o.t = "object" /\ k \in DOMAIN o.v THEN o.v[k] ELSE Undefined

\* o.k = x
Put(o, k, x) == Obj((k :> x) @@ o.v)

Keys(o) == DOMAIN o.v

\* ToBoolean
Truthy(x) ==
    CASE x.t = "undefined" -> FALSE
      [] x.t = "null"      -> FALSE
      [] x.t = "boolean"   -> x.v
      [] x.t = "number"    -> x.v # 0
      [] x.t = "string"    -> x.v # ""
      [] OTHER             -> TRUE

\* a || b
Or(a, b) == IF Truthy(a) THEN a ELSE b

\* Some element of the sequence is a raised exception.
AnyThrow(s) == \E i \in 1..Len(s) : IsThrow(s[i])

----------------------------------------------------------------------------
(* Numbers to text *)

HexDigits == <<"0", "1", "2", "3", "4", "5", "6", "7",
               "8", "9", "a", "b", "c", "d", "e", "f">>

RECURSIVE ToHex(_)
\* n.toString(16), n a non-negative integer
ToHex(n) ==
    IF n < 16 THEN HexDigits[n + 1]
    ELSE ToHex(n \div 16) \o HexDigits[(n % 16) + 1]

\* A hexadecimal text left as it is, not padded.
PadStart2None(s) == s

\* s.padStart(2, '0')
PadStart2(s) == IF Len(s) < 2 THEN "0" \o s ELSE s

\* Math.floor(c * 255), in place of the rounding.
Floor255(c) == (c * 255) \div 1000

\* Math.round(c * 255), as an integer, of a number c >= 0 given in
\* thousandths: the nearest integer, a half rounding up.
Round255(c) == (2 * c * 255 + 1000) \div 2000

RECURSIVE StripZeros(_)
\* The digits of a fraction without its trailing zeros.
StripZeros(s) ==
    IF Len(s) > 0 /\ SubSeq(s, Len(s), Len(s)) = "0"
    THEN StripZeros(SubSeq(s, 1, Len(s) - 1))
    ELSE s

\* String(x) of a number given in thousandths: 500 is "0.5", 4000 is "4",
\* -250 is "-0.25".
NumberToString(x) ==
    LET abs   == IF x < 0 THEN -x ELSE x
        whole == ToString(abs \div 1000)
        f     == abs % 1000
        d3    == (IF f < 10 THEN "00" ELSE IF f < 100 THEN "0" ELSE "") \o ToString(f)
    IN  (IF x < 0 THEN "-" ELSE "")
            \o (IF f = 0 THEN whole ELSE whole \o "." \o StripZeros(d3))

----------------------------------------------------------------------------
(* Strings *)

UpperCase == "ABCDEFGHIJKLMNOPQRSTUVWXYZ"
LowerCase == "abcdefghijklmnopqrstuvwxyz"

Char(s, i) == SubSeq(s, i, i)

\* One character, lower-cased.
LowerChar(c) ==
    IF \E i \in 1..Len(UpperCase) : Char(UpperCase, i) = c
    THEN Char(LowerCase, CHOOSE i \in 1..Len(UpperCase) : Char(UpperCase, i) = c)
    ELSE c

RECURSIVE ToLowerCase(_)
\* s.toLowerCase()
ToLowerCase(s) ==
    IF s = "" THEN ""
    ELSE LowerChar(Char(s, 1)) \o ToLowerCase(SubSeq(s, 2, Len(s)))

\* s.startsWith(p)
StartsWith(s, p) == Len(s) >= Len(p) /\ SubSeq(s, 1, Len(p)) = p

\* The places where sub occurs in s.
Occurrences(s, sub) ==
    {i \in 1..(Len(s) - Len(sub) + 1) : SubSeq(s, i, i + Len(sub) - 1) = sub}

\* s.includes(sub)
Includes(s, sub) == Occurrences(s, sub) # {}

\* s.replace(sub, by): the first occurrence only.
ReplaceFirst(s, sub, by) ==
    IF ~Includes(s, sub) THEN s
    ELSE LET i == CHOOSE j \in Occurrences(s, sub) :
                      \A k \in Occurrences(s, sub) : j <= k
         IN  SubSeq(s, 1, i - 1) \o by \o SubSeq(s, i + Len(sub), Len(s))

RECURSIVE Repeat(_, _)
\* s.repeat(n)
Repeat(s, n) == IF n = 0 THEN "" ELSE s \o Repeat(s, n - 1)

RECURSIVE Join(_, _)
\* array.join(sep), of a sequence of strings
Join(strs, sep) ==
    IF Len(strs) = 0 THEN ""
    ELSE IF Len(strs) = 1 THEN strs[1]
    ELSE strs[1] \o sep \o Join(Tail(strs), sep)

\* `${x}`: the string a template literal makes of a value.
ToStr(x) ==
    CASE x.t = "undefined" -> "undefined"
      [] x.t = "null"      -> "null"
      [] x.t = "boolean"   -> IF x.v THEN "true" ELSE "false"
      [] x.t = "number"    -> NumberToString(x.v)
      [] x.t = "string"    -> x.v
      [] OTHER             -> "[object Object]"

----------------------------------------------------------------------------
(* FigmaClient: the helpers of the normaliser *)

\* FigmaClient.formatColor(color)
formatColor(color) ==
    IF ~Truthy(color) THEN Null
    ELSE
        LET r == Round255(Get(color, "r").v)
            g == Round255(Get(color, "g").v)
            b == Round255(Get(color, "b").v)
            a == IF Get(color, "a") # Undefined THEN Get(color, "a") ELSE Num(1)
        IN  IF a = Num(1)
            THEN Str("#" \o PadStart2(ToHex(r)) \o PadStart2(ToHex(g))
                         \o PadStart2(ToHex(b)))
            ELSE Str("rgba(" \o ToString(r) \o ", " \o ToString(g) \o ", "
                             \o ToString(b) \o ", "
                             \o ToStr(a)
                             \o ")")

IsGradient(type) ==
    type \in {Str("GRADIENT_LINEAR"), Str("GRADIENT_RADIAL"),
              Str("GRADIENT_ANGULAR"), Str("GRADIENT_DIAMOND")}

\* The stop => ({position, color}) callback of formatFill.
formatStop(stop) ==
    Obj([position |-> Get(stop, "position"),
         color    |-> formatColor(Get(stop, "color"))])

\* FigmaClient.formatFill(fill); fill.gradientStops.map raises a TypeError
\* when a gradient has no gradientStops.
formatFill(fill) ==
    IF ~Truthy(fill) THEN Null
    ELSE
        LET type   == Get(fill, "type")
            result == Obj([type |-> type])
        IN  CASE type = Str("SOLID") ->
                   Put(Put(result, "color", formatColor(Get(fill, "color"))),
                       "opacity", Get(fill, "opacity"))
              [] IsGradient(type) ->
                   LET stops == Get(fill, "gradientStops")
                   IN  IF stops.t # "array" THEN Throw
                       ELSE
                           LET r1 == Put(result, "gradientStops",
                                         Arr([i \in 1..Len(stops.v) |->
                                                 formatStop(stops.v[i])]))
                           IN  IF Truthy(Get(fill, "gradientHandlePositions"))
                               THEN Put(r1, "gradientHandlePositions",
                                        Get(fill, "gradientHandlePositions"))
                               ELSE r1
              [] type = Str("IMAGE") ->
                   Put(Put(Put(result, "imageRef", Get(fill, "imageRef")),
                           "scaleMode", Get(fill, "scaleMode")),
                       "opacity", Get(fill, "opacity"))
              [] OTHER -> result

\* FigmaClient.formatEffect(effect)
formatEffect(effect) ==
    IF ~Truthy(effect) THEN Null
    ELSE
        LET type   == Get(effect, "type")
            result == Obj([type |-> type])
        IN  CASE type \in {Str("DROP_SHADOW"), Str("INNER_SHADOW")} ->
                   Obj([type    |-> type,
                        color   |-> formatColor(Get(effect, "color")),
                        offset  |-> Get(effect, "offset"),
                        radius  |-> Get(effect, "radius"),
                        spread  |-> Get(effect, "spread"),
                        visible |-> Bool(Get(effect, "visible") # Bool(FALSE))])
              [] type \in {Str("LAYER_BLUR"), Str("BACKGROUND_BLUR")} ->
                   Obj([type    |-> type,
                        radius  |-> Get(effect, "radius"),
                        visible |-> Bool(Get(effect, "visible") # Bool(FALSE))])
              [] OTHER -> result

\* padding.<side> = node.<key> when node.<key> !== undefined
PutDefined(o, side, n, key) ==
    IF Get(n, key) # Undefined THEN Put(o, side, Get(n, key)) ELSE o

\* FigmaClient.extractPadding(node)
extractPadding(n) ==
    LET padding ==
            PutDefined(PutDefined(PutDefined(PutDefined(EmptyObj,
                "left", n, "paddingLeft"), "right", n, "paddingRight"),
                "top", n, "paddingTop"), "bottom", n, "paddingBottom")
    IN  IF Cardinality(Keys(padding)) > 0 THEN padding ELSE Null

\* array && array.length > 0
NonEmpty(x) == x.t = "array" /\ Len(x.v) > 0

\* properties.k = node.k when node.k !== undefined
CopyDefined(p, n, k) == IF Get(n, k) # Undefined THEN Put(p, k, Get(n, k)) ELSE p

\* The position and size of extractNodeProperties.
withBounds(p, n) ==
    LET box == Get(n, "absoluteBoundingBox")
    IN  IF Truthy(box)
        THEN Put(Put(p, "position", Obj([x |-> Get(box, "x"), y |-> Get(box, "y")])),
                 "size", Obj([width  |-> Get(box, "width"),
                              height |-> Get(box, "height")]))
        ELSE p

\* The background colour of extractNodeProperties.
withBackground(p, n) ==
    IF Truthy(Get(n, "backgroundColor"))
    THEN Put(p, "backgroundColor", formatColor(Get(n, "backgroundColor")))
    ELSE p

\* The fills of extractNodeProperties.
withFills(p, n) ==
    LET fills == Get(n, "fills")
    IN  IF NonEmpty(fills)
        THEN LET out == [i \in 1..Len(fills.v) |-> formatFill(fills.v[i])]
             IN  IF AnyThrow(out) THEN Throw ELSE Put(p, "fills", Arr(out))
        ELSE p

\* The strokes, strokeWeight and strokeAlign of extractNodeProperties.
withStrokes(p, n) ==
    LET strokes == Get(n, "strokes")
    IN  IF NonEmpty(strokes)
        THEN LET out == [i \in 1..Len(strokes.v) |-> formatFill(strokes.v[i])]
             IN  IF AnyThrow(out) THEN Throw
                 ELSE CopyDefined(CopyDefined(Put(p, "strokes", Arr(out)),
                                              n, "strokeWeight"), n, "strokeAlign")
        ELSE p

\* The uniform and the individual corner radii of extractNodeProperties.
withCorners(p, n) ==
    LET p1 == CopyDefined(p, n, "cornerRadius")
    IN  IF \/ Get(n, "topLeftRadius") # Undefined
           \/ Get(n, "topRightRadius") # Undefined
           \/ Get(n, "bottomLeftRadius") # Undefined
           \/ Get(n, "bottomRightRadius") # Undefined
        THEN Put(p1, "cornerRadii",
                 Obj([topLeft     |-> Or(Get(n, "topLeftRadius"), Num(0)),
                      topRight    |-> Or(Get(n, "topRightRadius"), Num(0)),
                      bottomRight |-> Or(Get(n, "bottomRightRadius"), Num(0)),
                      bottomLeft  |-> Or(Get(n, "bottomLeftRadius"), Num(0))]))
        ELSE p1

\* The effects of extractNodeProperties.
withEffects(p, n) ==
    LET effects == Get(n, "effects")
    IN  IF NonEmpty(effects)
        THEN Put(p, "effects",
                 Arr([i \in 1..Len(effects.v) |-> formatEffect(effects.v[i])]))
        ELSE p

\* The layout record of extractNodeProperties.
withLayout(p, n) ==
    IF Get(n, "layoutMode") # Undefined
    THEN LET layout == Obj([mode    |-> Get(n, "layoutMode"),
                            spacing |-> Get(n, "itemSpacing"),
                            padding |-> extractPadding(n),
                            wrap    |-> Get(n, "layoutWrap")])
         IN  Put(p, "layout",
                 CopyDefined(CopyDefined(CopyDefined(CopyDefined(layout,
                     n, "primaryAxisSizingMode"), n, "counterAxisSizingMode"),
                     n, "primaryAxisAlignItems"), n, "counterAxisAlignItems"))
    ELSE p

\* The text content and text style of extractNodeProperties.
withText(p, n) ==
    IF Get(n, "type") = Str("TEXT")
    THEN LET p1    == Put(p, "textContent", Get(n, "characters"))
             style == Get(n, "style")
         IN  IF Truthy(style)
             THEN Put(p1, "textStyle",
                      Obj([fontFamily     |-> Get(style, "fontFamily"),
                           fontSize       |-> Get(style, "fontSize"),
                           fontWeight     |-> Get(style, "fontWeight"),
                           lineHeight     |-> Or(Get(style, "lineHeightPx"),
                                                 Get(style, "lineHeightPercentFontSize")),
                           letterSpacing  |-> Get(style, "letterSpacing"),
                           textAlign      |-> Get(style, "textAlignHorizontal"),
                           verticalAlign  |-> Get(style, "textAlignVertical"),
                           textCase       |-> Get(style, "textCase"),
                           textDecoration |-> Get(style, "textDecoration")]))
             ELSE p1
    ELSE p

\* The component instance properties of extractNodeProperties.
withInstance(p, n) ==
    IF Get(n, "type") = Str("INSTANCE")
    THEN LET p1 == Put(p, "componentId", Get(n, "componentId"))
         IN  IF Truthy(Get(n, "componentProperties"))
             THEN Put(p1, "componentProperties", Get(n, "componentProperties"))
             ELSE p1
    ELSE p

\* The constraints of extractNodeProperties.
withConstraints(p, n) ==
    IF Truthy(Get(n, "constraints")) THEN Put(p, "constraints", Get(n, "constraints"))
    ELSE p

RECURSIVE extractNodeProperties(_)

\* The children collected last to first.
withChildrenReversed(p, n) ==
    LET children == Get(n, "children")
    IN  IF NonEmpty(children)
        THEN LET out == [i \in 1..Len(children.v) |->
                            extractNodeProperties(children.v[Len(children.v) + 1 - i])]
             IN  IF AnyThrow(out) THEN Throw ELSE Put(p, "children", Arr(out))
        ELSE p

\* The children of extractNodeProperties: each child normalised, in order.
withChildren(p, n) ==
    LET children == Get(n, "children")
    IN  IF NonEmpty(children)
        THEN LET out == [i \in 1..Len(children.v) |->
                            extractNodeProperties(children.v[i])]
             IN  IF AnyThrow(out) THEN Throw ELSE Put(p, "children", Arr(out))
        ELSE p

\* The base properties with node.visible != false, the loose comparison,
\* which takes 0 for false.
basePropertiesLoose(n) ==
    Obj([id      |-> Get(n, "id"),
         name    |-> Get(n, "name"),
         type    |-> Get(n, "type"),
         visible |-> Bool(Get(n, "visible") \notin {Bool(FALSE), Num(0)})])

\* The base properties of extractNodeProperties.
baseProperties(n) ==
    Obj([id      |-> Get(n, "id"),
         name    |-> Get(n, "name"),
         type    |-> Get(n, "type"),
         visible |-> Bool(Get(n, "visible") # Bool(FALSE))])

\* FigmaClient.extractNodeProperties(node).  The fills and the strokes are the
\* steps that can raise; the steps after them are not run then.
extractNodeProperties(n) ==
    IF ~Truthy(n) THEN Null
    ELSE
        LET p1 == CopyDefined(withBounds(baseProperties(n), n), n, "rotation")
            p2 == withFills(withBackground(p1, n), n)
            p3 == IF IsThrow(p2) THEN Throw ELSE withStrokes(p2, n)
            p4 == IF IsThrow(p3) THEN Throw
                  ELSE withConstraints(withInstance(withText(withLayout(
                           withEffects(withCorners(p3, n), n), n), n), n), n)
        IN  IF IsThrow(p4) THEN Throw ELSE withChildren(p4, n)

----------------------------------------------------------------------------
(* FigmaClient: the AI-prompt renderer.  A piece of text is a Str, or Throw *)
(* when building it raised a TypeError.                                     *)

\* The pieces one after the other; the first exception ends the rendering.
CatAll(pieces) ==
    IF AnyThrow(pieces) THEN Throw
    ELSE Str(Join([i \in 1..Len(pieces) |-> pieces[i].v], ""))

\* One line of the description.
Line(indent, text) == Str(indent \o text \o "\n")

None == Str("")

\* An element of array.join: null and undefined give the empty string.
JoinElement(x) == IF x.t \in {"undefined", "null"} THEN "" ELSE ToStr(x)

\* JSON.stringify(node.cornerRadii), the keys in the order they were set.
stringifyRadii(radii) ==
    "{\"topLeft\":" \o ToStr(Get(radii, "topLeft"))
        \o ",\"topRight\":" \o ToStr(Get(radii, "topRight"))
        \o ",\"bottomRight\":" \o ToStr(Get(radii, "bottomRight"))
        \o ",\"bottomLeft\":" \o ToStr(Get(radii, "bottomLeft")) \o "}"

\* The type, name, size and background lines.
describeBasics(n, indent) ==
    CatAll(<<
        Line(indent, "Design Element:"),
        Line(indent, "- Type: " \o ToStr(Get(n, "type"))),
        IF Truthy(Get(n, "name"))
        THEN Line(indent, "- Name: " \o ToStr(Get(n, "name"))) ELSE None,
        IF Truthy(Get(n, "size"))
        THEN Str(Line(indent, "- Width: " \o ToStr(Get(Get(n, "size"), "width")) \o "px").v
                 \o Line(indent, "- Height: "
                                 \o ToStr(Get(Get(n, "size"), "height")) \o "px").v)
        ELSE None,
        IF Truthy(Get(n, "backgroundColor"))
        THEN Line(indent, "- Background Color: " \o ToStr(Get(n, "backgroundColor")))
        ELSE None >>)

\* The border radius line.
describeRadius(n, indent) ==
    IF Truthy(Get(n, "cornerRadius"))
    THEN Line(indent, "- Border Radius: " \o ToStr(Get(n, "cornerRadius")))
    ELSE IF Truthy(Get(n, "cornerRadii"))
    THEN Line(indent, "- Border Radius: " \o stringifyRadii(Get(n, "cornerRadii")))
    ELSE None

\* The line of one fill: the callback of node.fills.forEach.
describeFill(fill, i, count, indent) ==
    LET type   == Get(fill, "type")
        number == IF count > 1 THEN " " \o ToString(i) ELSE ""
    IN  IF fill.t # "object" THEN Throw
        ELSE IF type = Str("SOLID")
        THEN Line(indent, "- Fill" \o number \o ": " \o ToStr(Get(fill, "color")))
        ELSE IF type.t # "string" THEN Throw
        ELSE IF StartsWith(type.v, "GRADIENT")
        THEN LET stops == Get(fill, "gradientStops")
             IN  IF stops.t # "array" THEN Throw
                 ELSE Line(indent, "- Fill" \o number \o ": "
                        \o ToLowerCase(ReplaceFirst(type.v, "GRADIENT_", ""))
                        \o " gradient ("
                        \o Join([j \in 1..Len(stops.v) |->
                                    JoinElement(Get(stops.v[j], "color"))], " to ")
                        \o ")")
        ELSE None

\* The fill lines.
describeFills(n, indent) ==
    LET fills == Get(n, "fills")
    IN  IF NonEmpty(fills)
        THEN CatAll([i \in 1..Len(fills.v) |->
                        describeFill(fills.v[i], i, Len(fills.v), indent)])
        ELSE None

\* The border line.
describeStrokes(n, indent) ==
    LET strokes == Get(n, "strokes")
    IN  IF NonEmpty(strokes)
        THEN LET first == strokes.v[1]
             IN  IF first.t # "object" \/ Get(first, "type").t # "string" THEN Throw
                 ELSE Line(indent, "- Border: " \o ToStr(Get(n, "strokeWeight")) \o "px "
                             \o ToLowerCase(Get(first, "type").v) \o " "
                             \o ToStr(Get(first, "color")))
        ELSE None

\* `offset(${effect.offset.x}, ${effect.offset.y})`; reading x of an offset
\* that is undefined or null raises.
describeOffset(effect) ==
    LET offset == Get(effect, "offset")
    IN  IF offset.t \in {"undefined", "null"} THEN Throw
        ELSE Str("offset(" \o ToStr(Get(offset, "x")) \o ", "
                           \o ToStr(Get(offset, "y")) \o ")")

\* The line of one effect: the callback of node.effects.forEach.
describeEffect(effect, indent) ==
    LET type   == Get(effect, "type")
        shadow == Str(ToStr(Get(effect, "radius")) \o "px "
                      \o ToStr(Get(effect, "color")) \o " ")
    IN  IF effect.t # "object" THEN Throw
        ELSE IF type = Str("DROP_SHADOW")
        THEN CatAll(<<Str(indent \o "- Shadow: "), shadow,
                      describeOffset(effect), Str("\n")>>)
        ELSE IF type = Str("INNER_SHADOW")
        THEN CatAll(<<Str(indent \o "- Inner Shadow: "), shadow,
                      describeOffset(effect), Str("\n")>>)
        ELSE IF type.t # "string" THEN Throw
        ELSE IF Includes(type.v, "BLUR")
        THEN Line(indent, "- " \o ToLowerCase(ReplaceFirst(type.v, "_", " ")) \o ": "
                           \o ToStr(Get(effect, "radius")) \o "px")
        ELSE None

\* The effect lines.
describeEffects(n, indent) ==
    LET effects == Get(n, "effects")
    IN  IF NonEmpty(effects)
        THEN CatAll([i \in 1..Len(effects.v) |-> describeEffect(effects.v[i], indent)])
        ELSE None

\* The padding line.
describePadding(padding, indent) ==
    LET top    == Get(padding, "top")
        right  == Get(padding, "right")
        bottom == Get(padding, "bottom")
        left   == Get(padding, "left")
    IN  IF top = right /\ right = bottom /\ bottom = left
        THEN Line(indent, "- Padding: " \o ToStr(top) \o "px")
        ELSE Line(indent, "- Padding: " \o ToStr(Or(top, Num(0))) \o "px "
                           \o ToStr(Or(right, Num(0))) \o "px "
                           \o ToStr(Or(bottom, Num(0))) \o "px "
                           \o ToStr(Or(left, Num(0))) \o "px")

\* The layout lines.
describeLayout(n, indent) ==
    LET layout == Get(n, "layout")
    IN  IF Truthy(layout)
        THEN CatAll(<<
                Line(indent, "- Layout: " \o (IF Get(layout, "mode") = Str("HORIZONTAL")
                                              THEN "Row" ELSE "Column")),
                IF Truthy(Get(layout, "spacing"))
                THEN Line(indent, "- Gap: " \o ToStr(Get(layout, "spacing")) \o "px")
                ELSE None,
                IF Truthy(Get(layout, "padding"))
                THEN describePadding(Get(layout, "padding"), indent) ELSE None,
                IF Truthy(Get(layout, "primaryAxisSizingMode"))
                THEN Line(indent, "- Primary Axis Sizing: "
                                  \o ToStr(Get(layout, "primaryAxisSizingMode")))
                ELSE None,
                IF Truthy(Get(layout, "counterAxisSizingMode"))
                THEN Line(indent, "- Counter Axis Sizing: "
                                  \o ToStr(Get(layout, "counterAxisSizingMode")))
                ELSE None >>)
        ELSE None

\* A line of the text style, when the field is truthy.
styleLine(style, key, indent, label, unit) ==
    IF Truthy(Get(style, key))
    THEN Line(indent, label \o ToStr(Get(style, key)) \o unit) ELSE None

\* A line of the text style whose value is lower-cased, when the field is
\* truthy and is not the value that stands for "none".
lowerStyleLine(style, key, indent, label, skip) ==
    LET x == Get(style, key)
    IN  IF Truthy(x) /\ x # Str(skip)
        THEN IF x.t # "string" THEN Throw
             ELSE Line(indent, label \o ToLowerCase(x.v))
        ELSE None

\* The text lines.
describeText(n, indent) ==
    LET style == Get(n, "textStyle")
    IN  IF Get(n, "type") = Str("TEXT")
        THEN CatAll(<<
                Line(indent, "- Text: \"" \o ToStr(Get(n, "textContent")) \o "\""),
                IF Truthy(style)
                THEN CatAll(<<
                        styleLine(style, "fontFamily", indent, "- Font Family: ", ""),
                        styleLine(style, "fontSize", indent, "- Font Size: ", "px"),
                        styleLine(style, "fontWeight", indent, "- Font Weight: ", ""),
                        styleLine(style, "lineHeight", indent, "- Line Height: ", ""),
                        styleLine(style, "letterSpacing", indent, "- Letter Spacing: ", ""),
                        lowerStyleLine(style, "textAlign", indent, "- Text Alignment: ", ""),
                        lowerStyleLine(style, "textCase", indent, "- Text Case: ",
                                       "ORIGINAL"),
                        lowerStyleLine(style, "textDecoration", indent,
                                       "- Text Decoration: ", "NONE") >>)
                ELSE None >>)
        ELSE None

\* The line of one component property: the callback of Object.entries(...).forEach.
describeProperty(key, value, indent) ==
    IF value.t \in {"undefined", "null"} THEN Throw
    ELSE Line(indent, "  - " \o key \o ": "
                \o (IF Get(value, "type") = Str("BOOLEAN")
                    THEN (IF Truthy(Get(value, "value")) THEN "true" ELSE "false")
                    ELSE ToStr(Get(value, "value"))))

RECURSIVE describeProperties(_, _, _)
\* The component property lines of the keys left to describe.
describeProperties(props, keys, indent) ==
    IF keys = {} THEN None
    ELSE LET k == CHOOSE key \in keys : TRUE
         IN  CatAll(<<describeProperty(k, props.v[k], indent),
                      describeProperties(props, keys \ {k}, indent)>>)

\* The component instance lines.
describeInstance(n, indent) ==
    LET props == Get(n, "componentProperties")
    IN  IF Get(n, "type") = Str("INSTANCE") /\ Truthy(props)
        THEN CatAll(<<Line(indent, "- Component Properties:"),
                      IF props.t = "object"
                      THEN describeProperties(props, Keys(props), indent) ELSE None>>)
        ELSE None

RECURSIVE generateNodeDescription(_, _)

\* The "Contains:" line and the description of each child, one level deeper.
describeChildren(n, indentLevel) ==
    LET children == Get(n, "children")
    IN  IF NonEmpty(children)
        THEN CatAll(<<Line(Repeat("  ", indentLevel), "- Contains:"),
                      CatAll([i \in 1..Len(children.v) |->
                                 generateNodeDescription(children.v[i],
                                                         indentLevel + 1)])>>)
        ELSE None

\* FigmaClient.generateNodeDescription(node, indentLevel)
generateNodeDescription(n, indentLevel) ==
    IF ~Truthy(n) THEN None
    ELSE LET indent == Repeat("  ", indentLevel)
         IN  CatAll(<<describeBasics(n, indent),
                      describeRadius(n, indent),
                      describeFills(n, indent),
                      describeStrokes(n, indent),
                      describeEffects(n, indent),
                      describeLayout(n, indent),
                      describeText(n, indent),
                      describeInstance(n, indent),
                      describeChildren(n, indentLevel)>>)

\* FigmaClient.generateAIPrompt(node)
generateAIPrompt(n) ==
    IF ~Truthy(n) THEN None
    ELSE CatAll(<<
            Str("Your task is to create a React component that matches the following Figma design:\n\n"),
            generateNodeDescription(n, 0),
            Str("\nThe component should be written in React with Tailwind CSS.\n"),
            Str("Assume that the host project uses React and Tailwind CSS, and you can reuse any existing components or styles from the project's scope.\n"),
            Str("Generate the complete React component code.\n") >>)

----------------------------------------------------------------------------
(* index.js: the optimiser.  Its formatColor and extractPadding are not the *)
(* methods of FigmaClient of the same name; they are cliFormatColor and     *)
(* cliExtractPadding here.                                                  *)

\* A value that the relational operators read as a number; undefined makes
\* every comparison false.
Numeric(x) == x.t \in {"number", "null"}
Val(x) == IF x.t = "number" THEN x.v ELSE 0

Le(x, y) == Numeric(x) /\ Numeric(y) /\ Val(x) <= Val(y)
Lt(x, y) == Numeric(x) /\ Numeric(y) /\ Val(x) < Val(y)
Ge(x, y) == Numeric(x) /\ Numeric(y) /\ Val(x) >= Val(y)
Gt(x, y) == Numeric(x) /\ Numeric(y) /\ Val(x) > Val(y)

\* An array of strings.
StrArr(strs) == Arr([i \in 1..Len(strs) |-> Str(strs[i])])

\* node.name?.toLowerCase() || ''
nameLowerOf(n) ==
    IF Get(n, "name").t = "string" THEN ToLowerCase(Get(n, "name").v) ELSE ""

\* The callback of node.children.some in guessComponentType.
childIsModal(child) == Includes(nameLowerOf(child), "modal")

\* guessComponentType with the cancel rule first, and the button and modal
\* rules after it.
guessCancelFirst(n) ==
    IF Includes(nameLowerOf(n), "cancel") THEN "confirmation-dialog"
    ELSE IF Includes(nameLowerOf(n), "button") THEN "button"
    ELSE IF Includes(nameLowerOf(n), "modal") THEN "modal"
    ELSE "unknown"

\* guessComponentType(node)
guessComponentType(n) ==
    LET nameLower == nameLowerOf(n)
        children  == Get(n, "children")
    IN  IF \/ Includes(nameLower, "button")
           \/ (Get(n, "type") = Str("INSTANCE") /\ Includes(nameLower, "btn"))
        THEN "button"
        ELSE IF \/ Includes(nameLower, "modal")
                \/ Includes(nameLower, "dialog")
                \/ (children.t = "array"
                    /\ \E i \in 1..Len(children.v) : childIsModal(children.v[i]))
        THEN "modal"
        ELSE IF \/ Includes(nameLower, "card")
                \/ (/\ Truthy(Get(n, "cornerRadius"))
                    /\ Gt(Get(n, "cornerRadius"), Num(0))
                    /\ Truthy(children))
        THEN "card"
        ELSE IF \/ Includes(nameLower, "input")
                \/ Includes(nameLower, "field")
                \/ Includes(nameLower, "form")
        THEN "input"
        ELSE IF \/ Includes(nameLower, "alert")
                \/ Includes(nameLower, "notification")
                \/ Includes(nameLower, "toast")
        THEN "alert"
        ELSE IF Includes(nameLower, "cancel")
        THEN "confirmation-dialog"
        ELSE "unknown"

\* `rgb(${Math.round(color.r*255)}, ...)`: the callback of the map of
\* generateComponentHints; reading r of a colour that is undefined raises.
hintColor(fill) ==
    LET color == Get(fill, "color")
    IN  IF color.t \in {"undefined", "null"} THEN Throw
        ELSE Str("rgb(" \o ToString(Round255(Get(color, "r").v)) \o ", "
                        \o ToString(Round255(Get(color, "g").v)) \o ", "
                        \o ToString(Round255(Get(color, "b").v)) \o ")")

RECURSIVE SolidFills(_)
\* fills.filter(fill => fill.type === 'SOLID')
SolidFills(fills) ==
    IF Len(fills) = 0 THEN <<>>
    ELSE IF Get(fills[1], "type") = Str("SOLID")
    THEN <<fills[1]>> \o SolidFills(Tail(fills))
    ELSE SolidFills(Tail(fills))

\* generateComponentHints(node)
generateComponentHints(n) ==
    LET name   == Get(n, "name")
        named  == IF Truthy(name)
                  THEN <<name>> \o
                       (IF Includes(ToLowerCase(name.v), "cancel")
                        THEN <<Str("Cancel"), Str("CancelDialog"),
                               Str("Confirmation"), Str("ConfirmationDialog")>>
                        ELSE <<>>)
                  ELSE <<>>
        typed  == IF Get(n, "type") = Str("INSTANCE")
                  THEN <<Str("Component: " \o ToStr(name))>> ELSE <<>>
        fills  == Get(n, "fills")
        solid  == SolidFills(fills.v)
        colors == [i \in 1..Len(solid) |-> hintColor(solid[i])]
    IN  IF NonEmpty(fills)
        THEN IF AnyThrow(colors) THEN Throw
             ELSE IF Len(colors) > 0
             THEN Arr(named \o typed \o
                      <<Str("Colors: " \o Join([i \in 1..Len(colors) |-> colors[i].v],
                                               ", "))>>)
             ELSE Arr(named \o typed)
        ELSE Arr(named \o typed)

\* formatColor(color) of index.js
cliFormatColor(color) ==
    IF ~Truthy(color) THEN Null
    ELSE
        LET r == Round255(Get(color, "r").v)
            g == Round255(Get(color, "g").v)
            b == Round255(Get(color, "b").v)
            a == IF Get(color, "a") # Undefined THEN Get(color, "a") ELSE Num(1)
        IN  IF a = Num(1)
            THEN Str("rgb(" \o ToString(r) \o ", " \o ToString(g) \o ", "
                            \o ToString(b) \o ")")
            ELSE Str("rgba(" \o ToString(r) \o ", " \o ToString(g) \o ", "
                             \o ToString(b) \o ", " \o ToStr(a) \o ")")

\* extractPadding(node) of index.js
cliExtractPadding(n) ==
    PutDefined(PutDefined(PutDefined(PutDefined(EmptyObj,
        "left", n, "paddingLeft"), "right", n, "paddingRight"),
        "top", n, "paddingTop"), "bottom", n, "paddingBottom")

\* extractProperties(node)
extractProperties(n) ==
    LET p1 == IF Truthy(Get(n, "backgroundColor"))
              THEN Put(EmptyObj, "backgroundColor",
                       cliFormatColor(Get(n, "backgroundColor")))
              ELSE EmptyObj
        p2 == IF Truthy(Get(n, "cornerRadius"))
              THEN Put(p1, "borderRadius", Get(n, "cornerRadius")) ELSE p1
        p3 == IF NonEmpty(Get(n, "strokes"))
              THEN Put(p2, "border",
                       Obj([width |-> Or(Get(n, "strokeWeight"), Num(1)),
                            style |-> Str("solid"),
                            color |-> cliFormatColor(
                                          Get(Get(n, "strokes").v[1], "color"))]))
              ELSE p2
    IN  IF Truthy(Get(n, "layoutMode"))
        THEN Put(p3, "layout",
                 Obj([direction |-> IF Get(n, "layoutMode") = Str("HORIZONTAL")
                                    THEN Str("row") ELSE Str("column"),
                      gap       |-> Or(Get(n, "itemSpacing"), Num(0)),
                      padding   |-> cliExtractPadding(n)]))
        ELSE p3

\* extractTextStyle(textNode)
extractTextStyle(textNode) ==
    LET style == Get(textNode, "style")
        align == Get(style, "textAlignHorizontal")
    IN  IF ~Truthy(style) THEN EmptyObj
        ELSE Obj([fontFamily    |-> Get(style, "fontFamily"),
                  fontSize      |-> Get(style, "fontSize"),
                  fontWeight    |-> Get(style, "fontWeight"),
                  lineHeight    |-> Get(style, "lineHeightPx"),
                  letterSpacing |-> Get(style, "letterSpacing"),
                  textAlign     |-> IF align.t = "string"
                                    THEN Str(ToLowerCase(align.v)) ELSE Undefined,
                  color         |-> IF NonEmpty(Get(textNode, "fills"))
                                    THEN cliFormatColor(
                                             Get(Get(textNode, "fills").v[1], "color"))
                                    ELSE Null])

\* extractStyles(node, projectStyles)
extractStyles(n, projectStyles) ==
    LET s1 == IF Truthy(Get(n, "styles")) /\ Get(n, "styles").t = "object"
              THEN Get(n, "styles") ELSE EmptyObj
        s2 == IF Truthy(Get(n, "boundVariables"))
              THEN Put(s1, "variables", Get(n, "boundVariables")) ELSE s1
    IN  IF Truthy(projectStyles) THEN Put(s2, "projectStyles", projectStyles) ELSE s2

\* extractVariants(node)
extractVariants(n) ==
    LET props == Get(n, "componentProperties")
    IN  IF Get(n, "type") # Str("INSTANCE") \/ ~Truthy(props) THEN EmptyObj
        ELSE Obj([k \in {key \in Keys(props) :
                            Get(props.v[key], "type") = Str("VARIANT")} |->
                     Get(props.v[k], "value")])

\* interaction.actions?.[0]
firstAction(interaction) ==
    LET actions == Get(interaction, "actions")
    IN  IF NonEmpty(actions) THEN actions.v[1] ELSE Undefined

\* extractInteractions(node)
extractInteractions(n) ==
    LET interactions == Get(n, "interactions")
    IN  IF ~NonEmpty(interactions) THEN Arr(<<>>)
        ELSE Arr([i \in 1..Len(interactions.v) |->
                     Obj([trigger |-> Get(Get(interactions.v[i], "trigger"), "type"),
                          action  |-> Get(firstAction(interactions.v[i]), "type"),
                          target  |-> Get(firstAction(interactions.v[i]),
                                          "destinationId")])])

----------------------------------------------------------------------------
(* index.js: the Tailwind class ladders.  A ladder gives a Str, or Null for *)
(* "no class".                                                              *)

\* pxToTailwindSpacing with bounds that are not inclusive.
pxToTailwindSpacingBelow(px) ==
    IF Le(px, Num(0)) THEN Null
    ELSE IF Lt(px, Num(1)) THEN Str("0.5")
    ELSE IF Lt(px, Num(2)) THEN Str("1")
    ELSE IF Lt(px, Num(3)) THEN Str("1.5")
    ELSE IF Lt(px, Num(5)) THEN Str("2")
    ELSE IF Lt(px, Num(7)) THEN Str("3")
    ELSE IF Lt(px, Num(10)) THEN Str("4")
    ELSE IF Lt(px, Num(14)) THEN Str("5")
    ELSE IF Lt(px, Num(18)) THEN Str("6")
    ELSE IF Lt(px, Num(22)) THEN Str("7")
    ELSE IF Lt(px, Num(26)) THEN Str("8")
    ELSE IF Lt(px, Num(34)) THEN Str("10")
    ELSE IF Lt(px, Num(42)) THEN Str("12")
    ELSE IF Lt(px, Num(56)) THEN Str("16")
    ELSE Null

\* pxToTailwindSpacing(px)
pxToTailwindSpacing(px) ==
    IF Le(px, Num(0)) THEN Null
    ELSE IF Le(px, Num(1)) THEN Str("0.5")
    ELSE IF Le(px, Num(2)) THEN Str("1")
    ELSE IF Le(px, Num(3)) THEN Str("1.5")
    ELSE IF Le(px, Num(5)) THEN Str("2")
    ELSE IF Le(px, Num(7)) THEN Str("3")
    ELSE IF Le(px, Num(10)) THEN Str("4")
    ELSE IF Le(px, Num(14)) THEN Str("5")
    ELSE IF Le(px, Num(18)) THEN Str("6")
    ELSE IF Le(px, Num(22)) THEN Str("7")
    ELSE IF Le(px, Num(26)) THEN Str("8")
    ELSE IF Le(px, Num(34)) THEN Str("10")
    ELSE IF Le(px, Num(42)) THEN Str("12")
    ELSE IF Le(px, Num(56)) THEN Str("16")
    ELSE Null

\* pxToTailwindBorderRadius(px)
pxToTailwindBorderRadius(px) ==
    IF Le(px, Num(0)) THEN Null
    ELSE IF Le(px, Num(1)) THEN Str("sm")
    ELSE IF Le(px, Num(3)) THEN Str("DEFAULT")
    ELSE IF Le(px, Num(6)) THEN Str("md")
    ELSE IF Le(px, Num(9)) THEN Str("lg")
    ELSE IF Le(px, Num(12)) THEN Str("xl")
    ELSE IF Le(px, Num(16)) THEN Str("2xl")
    ELSE IF Le(px, Num(20)) THEN Str("3xl")
    ELSE Str("full")

\* pxToTailwindBorderWidth(px)
pxToTailwindBorderWidth(px) ==
    IF Le(px, Num(0)) THEN Null
    ELSE IF Le(px, Num(1)) THEN Str("DEFAULT")
    ELSE IF Le(px, Num(2)) THEN Str("2")
    ELSE IF Le(px, Num(4)) THEN Str("4")
    ELSE IF Le(px, Num(8)) THEN Str("8")
    ELSE Null

\* Math.abs(px - size) <= tolerance
Near(px, size, tolerance) ==
    /\ Numeric(px)
    /\ Val(px) - size * 1000 <= tolerance * 1000
    /\ size * 1000 - Val(px) <= tolerance * 1000

\* pxToTailwindSize(px, prefix)
pxToTailwindSize(px, prefix) ==
    IF Le(px, Num(0)) THEN Null
    ELSE IF Near(px, 16, 2) THEN Str(prefix \o "-4")
    ELSE IF Near(px, 24, 2) THEN Str(prefix \o "-6")
    ELSE IF Near(px, 32, 2) THEN Str(prefix \o "-8")
    ELSE IF Near(px, 40, 2) THEN Str(prefix \o "-10")
    ELSE IF Near(px, 48, 2) THEN Str(prefix \o "-12")
    ELSE IF Near(px, 64, 3) THEN Str(prefix \o "-16")
    ELSE IF Near(px, 80, 3) THEN Str(prefix \o "-20")
    ELSE IF Near(px, 96, 3) THEN Str(prefix \o "-24")
    ELSE IF Near(px, 128, 4) THEN Str(prefix \o "-32")
    ELSE IF Near(px, 160, 4) THEN Str(prefix \o "-40")
    ELSE IF Near(px, 192, 4) THEN Str(prefix \o "-48")
    ELSE IF Near(px, 256, 5) THEN Str(prefix \o "-64")
    ELSE IF Near(px, 320, 5) THEN Str(prefix \o "-80")
    ELSE IF Near(px, 384, 5) THEN Str(prefix \o "-96")
    ELSE IF Near(px, 360, 5) THEN Str(prefix \o "-full")
    ELSE Null

\* The class `${prefix}${label}` of a side of the padding, when the side is
\* defined and has a spacing class.
sideClass(n, key, prefix) ==
    LET label == pxToTailwindSpacing(Get(n, key))
    IN  IF Get(n, key) # Undefined /\ Truthy(label) THEN <<prefix \o label.v>> ELSE <<>>

\* extractPaddingClasses without the removal of the classes of single sides
\* that px- and py- stand for.
extractPaddingClassesUnfiltered(n) ==
    LET left   == Get(n, "paddingLeft")
        right  == Get(n, "paddingRight")
        top    == Get(n, "paddingTop")
        bottom == Get(n, "paddingBottom")
        px     == left = right /\ left # Undefined /\ Truthy(pxToTailwindSpacing(left))
        py     == top = bottom /\ top # Undefined /\ Truthy(pxToTailwindSpacing(top))
    IN  IF left = Undefined /\ right = Undefined /\ top = Undefined /\ bottom = Undefined
        THEN <<>>
        ELSE IF left = right /\ left = top /\ left = bottom /\ left # Undefined
        THEN sideClass(n, "paddingLeft", "p-")
        ELSE sideClass(n, "paddingLeft", "pl-") \o sideClass(n, "paddingRight", "pr-")
                 \o sideClass(n, "paddingTop", "pt-")
                 \o sideClass(n, "paddingBottom", "pb-")
                 \o (IF px THEN <<"px-" \o pxToTailwindSpacing(left).v>> ELSE <<>>)
                 \o (IF py THEN <<"py-" \o pxToTailwindSpacing(top).v>> ELSE <<>>)

\* extractPaddingClasses(node)
extractPaddingClasses(n) ==
    LET left   == Get(n, "paddingLeft")
        right  == Get(n, "paddingRight")
        top    == Get(n, "paddingTop")
        bottom == Get(n, "paddingBottom")
        px     == left = right /\ left # Undefined /\ Truthy(pxToTailwindSpacing(left))
        py     == top = bottom /\ top # Undefined /\ Truthy(pxToTailwindSpacing(top))
        sides  == (IF px THEN <<>>
                   ELSE sideClass(n, "paddingLeft", "pl-")
                            \o sideClass(n, "paddingRight", "pr-"))
                  \o (IF py THEN <<>>
                      ELSE sideClass(n, "paddingTop", "pt-")
                               \o sideClass(n, "paddingBottom", "pb-"))
    IN  IF left = Undefined /\ right = Undefined /\ top = Undefined /\ bottom = Undefined
        THEN <<>>
        ELSE IF left = right /\ left = top /\ left = bottom /\ left # Undefined
        THEN sideClass(n, "paddingLeft", "p-")
        ELSE sides
                 \o (IF px THEN <<"px-" \o pxToTailwindSpacing(left).v>> ELSE <<>>)
                 \o (IF py THEN <<"py-" \o pxToTailwindSpacing(top).v>> ELSE <<>>)

\* The DROP_SHADOW effects that are not hidden: the filter of
\* extractShadowClasses.
RECURSIVE visibleShadows(_)
visibleShadows(effects) ==
    IF Len(effects) = 0 THEN <<>>
    ELSE IF /\ Get(effects[1], "type") = Str("DROP_SHADOW")
            /\ Get(effects[1], "visible") # Bool(FALSE)
    THEN <<effects[1]>> \o visibleShadows(Tail(effects))
    ELSE visibleShadows(Tail(effects))

\* The tier of one shadow: the body of the loop of extractShadowClasses.
\* shadow.offset.y is read only when the radius reaches the tier, and raises
\* when the shadow has no offset.
shadowTier(shadow) ==
    LET radius == Get(shadow, "radius")
        offset == Get(shadow, "offset")
        noY    == offset.t \in {"undefined", "null"}
    IN  IF Ge(radius, Num(16)) /\ noY THEN Throw
        ELSE IF Ge(radius, Num(16)) /\ Ge(Get(offset, "y"), Num(8)) THEN Str("shadow-xl")
        ELSE IF Ge(radius, Num(8)) /\ noY THEN Throw
        ELSE IF Ge(radius, Num(8)) /\ Ge(Get(offset, "y"), Num(4)) THEN Str("shadow-lg")
        ELSE IF Ge(radius, Num(3)) THEN Str("shadow-md")
        ELSE Null

RECURSIVE lastTier(_)
\* The tier of the last shadow that has one, Null when none has.
lastTier(shadows) ==
    IF Len(shadows) = 0 THEN Null
    ELSE IF lastTier(Tail(shadows)) # Null THEN lastTier(Tail(shadows))
    ELSE shadowTier(shadows[1])

RECURSIVE firstTier(_)
\* The loop of extractShadowClasses: the tier of the first shadow that has
\* one, Null when none has.
firstTier(shadows) ==
    IF Len(shadows) = 0 THEN Null
    ELSE IF shadowTier(shadows[1]) # Null THEN shadowTier(shadows[1])
    ELSE firstTier(Tail(shadows))

\* extractShadowClasses(effects): a sequence of classes, or Throw
extractShadowClasses(effects) ==
    LET shadows == visibleShadows(effects)
        tier    == firstTier(shadows)
    IN  IF Len(shadows) = 0 THEN Arr(<<>>)
        ELSE IF IsThrow(tier) THEN Throw
        ELSE IF tier # Null THEN Arr(<<tier>>)
        ELSE Arr(<<Str("shadow")>>)

\* Math.round(a * 100), as an integer, of a number a >= 0 in thousandths
Round100(a) == (2 * a * 100 + 1000) \div 2000

Abs(i) == IF i < 0 THEN -i ELSE i

\* The gray ladder of colorToTailwindClass, on the sum of the three channels
\* (brightness < b is r + g + b < 3 * b).
grayClass(sum) ==
    IF sum < 3 * 30 THEN "gray-950"
    ELSE IF sum < 3 * 50 THEN "gray-900"
    ELSE IF sum < 3 * 80 THEN "gray-800"
    ELSE IF sum < 3 * 110 THEN "gray-700"
    ELSE IF sum < 3 * 135 THEN "gray-600"
    ELSE IF sum < 3 * 160 THEN "gray-500"
    ELSE IF sum < 3 * 185 THEN "gray-400"
    ELSE IF sum < 3 * 210 THEN "gray-300"
    ELSE IF sum < 3 * 230 THEN "gray-200"
    ELSE IF sum < 3 * 245 THEN "gray-100"
    ELSE "gray-50"

\* The red and the blue ladder of colorToTailwindClass, on the channel.
hueClass(hue, c) ==
    IF c > 240 THEN hue \o "-500"
    ELSE IF c > 220 THEN hue \o "-600"
    ELSE IF c > 200 THEN hue \o "-700"
    ELSE IF c > 180 THEN hue \o "-800"
    ELSE hue \o "-900"

\* colorToTailwindClass(color, prefix)
colorToTailwindClass(color, prefix) ==
    IF ~Truthy(color) THEN Null
    ELSE
        LET r == Round255(Get(color, "r").v)
            g == Round255(Get(color, "g").v)
            b == Round255(Get(color, "b").v)
            a == IF Get(color, "a") # Undefined THEN Get(color, "a") ELSE Num(1)
        IN  IF r = 0 /\ g = 0 /\ b = 0 THEN Str(prefix \o "-black")
            ELSE IF r = 255 /\ g = 255 /\ b = 255 THEN Str(prefix \o "-white")
            ELSE IF Abs(r - g) < 10 /\ Abs(r - b) < 10
            THEN Str(prefix \o "-" \o grayClass(r + g + b))
            ELSE IF r > 170 /\ g < 100 /\ b < 100
            THEN Str(prefix \o "-" \o hueClass("red", r))
            ELSE IF b > 170 /\ r < 100 /\ g < 160
            THEN Str(prefix \o "-" \o hueClass("blue", b))
            ELSE IF Lt(a, Milli(200)) THEN Str(prefix \o "-transparent")
            ELSE IF Lt(a, Milli(950))
            THEN Str(prefix \o "-opacity-" \o ToString(Round100(Val(a))))
            ELSE Null

\* fontFamilyToTailwind(fontFamily)
fontFamilyToTailwind(fontFamily) ==
    LET normalizedFont == ToLowerCase(fontFamily.v)
    IN  IF ~Truthy(fontFamily) THEN Null
        ELSE IF Includes(normalizedFont, "inter") THEN Str("font-sans")
        ELSE IF Includes(normalizedFont, "helvetica") \/ Includes(normalizedFont, "arial")
        THEN Str("font-sans")
        ELSE IF Includes(normalizedFont, "times") \/ Includes(normalizedFont, "georgia")
        THEN Str("font-serif")
        ELSE IF Includes(normalizedFont, "mono") \/ Includes(normalizedFont, "courier")
        THEN Str("font-mono")
        ELSE Null

\* fontSizeToTailwind(fontSize)
fontSizeToTailwind(fontSize) ==
    IF ~Truthy(fontSize) THEN Null
    ELSE IF Le(fontSize, Num(12)) THEN Str("text-xs")
    ELSE IF Le(fontSize, Num(14)) THEN Str("text-sm")
    ELSE IF Le(fontSize, Num(16)) THEN Str("text-base")
    ELSE IF Le(fontSize, Num(18)) THEN Str("text-lg")
    ELSE IF Le(fontSize, Num(20)) THEN Str("text-xl")
    ELSE IF Le(fontSize, Num(24)) THEN Str("text-2xl")
    ELSE IF Le(fontSize, Num(30)) THEN Str("text-3xl")
    ELSE IF Le(fontSize, Num(36)) THEN Str("text-4xl")
    ELSE IF Le(fontSize, Num(48)) THEN Str("text-5xl")
    ELSE IF Le(fontSize, Num(60)) THEN Str("text-6xl")
    ELSE IF Le(fontSize, Num(72)) THEN Str("text-7xl")
    ELSE IF Le(fontSize, Num(96)) THEN Str("text-8xl")
    ELSE IF Le(fontSize, Num(128)) THEN Str("text-9xl")
    ELSE Null

\* fontWeightToTailwind(fontWeight)
fontWeightToTailwind(fontWeight) ==
    IF ~Truthy(fontWeight) THEN Null
    ELSE IF Le(fontWeight, Num(100)) THEN Str("font-thin")
    ELSE IF Le(fontWeight, Num(200)) THEN Str("font-extralight")
    ELSE IF Le(fontWeight, Num(300)) THEN Str("font-light")
    ELSE IF Le(fontWeight, Num(400)) THEN Str("font-normal")
    ELSE IF Le(fontWeight, Num(500)) THEN Str("font-medium")
    ELSE IF Le(fontWeight, Num(600)) THEN Str("font-semibold")
    ELSE IF Le(fontWeight, Num(700)) THEN Str("font-bold")
    ELSE IF Le(fontWeight, Num(800)) THEN Str("font-extrabold")
    ELSE Str("font-black")

\* lineHeightToTailwind(lineHeight)
lineHeightToTailwind(lineHeight) ==
    IF ~Truthy(lineHeight) THEN Null
    ELSE IF Le(lineHeight, Num(16)) THEN Str("leading-none")
    ELSE IF Le(lineHeight, Num(20)) THEN Str("leading-tight")
    ELSE IF Le(lineHeight, Num(24)) THEN Str("leading-snug")
    ELSE IF Le(lineHeight, Num(28)) THEN Str("leading-normal")
    ELSE IF Le(lineHeight, Num(32)) THEN Str("leading-relaxed")
    ELSE IF Le(lineHeight, Num(40)) THEN Str("leading-loose")
    ELSE Null

\* letterSpacingToTailwind(letterSpacing)
letterSpacingToTailwind(letterSpacing) ==
    IF ~Truthy(letterSpacing) THEN Null
    ELSE IF Le(letterSpacing, Milli(-50)) THEN Str("tracking-tighter")
    ELSE IF Le(letterSpacing, Milli(-25)) THEN Str("tracking-tight")
    ELSE IF Ge(letterSpacing, Milli(-10)) /\ Le(letterSpacing, Milli(10))
    THEN Str("tracking-normal")
    ELSE IF Ge(letterSpacing, Milli(25)) THEN Str("tracking-wide")
    ELSE IF Ge(letterSpacing, Milli(50)) THEN Str("tracking-wider")
    ELSE IF Ge(letterSpacing, Milli(100)) THEN Str("tracking-widest")
    ELSE Null

\* textAlignToTailwind(textAlign)
textAlignToTailwind(textAlign) ==
    LET align == ToLowerCase(textAlign.v)
    IN  IF ~Truthy(textAlign) THEN Null
        ELSE IF Includes(align, "left") THEN Str("text-left")
        ELSE IF Includes(align, "center") THEN Str("text-center")
        ELSE IF Includes(align, "right") THEN Str("text-right")
        ELSE IF Includes(align, "justify") THEN Str("text-justify")
        ELSE Null

----------------------------------------------------------------------------
(* index.js: the classes of a node, its children, the implementation guide *)
(* and optimizeFigmaData.  Classes are sequences of strings until they are *)
(* stored in the result.                                                    *)

\* if (x) classes.push(x)
ClassOf(x) == IF Truthy(x) THEN <<x.v>> ELSE <<>>

\* if (x) classes.push(`${prefix}${x}`)
PrefixedClassOf(prefix, x) == IF Truthy(x) THEN <<prefix \o x.v>> ELSE <<>>

\* generateTailwindClasses(node): an array of classes, or Throw
generateTailwindClasses(n) ==
    LET layoutMode == Get(n, "layoutMode")
        strokes    == Get(n, "strokes")
        box        == Get(n, "absoluteBoundingBox")
        effects    == Get(n, "effects")
        layout  == IF layoutMode = Str("HORIZONTAL") THEN <<"flex", "flex-row">>
                   ELSE IF layoutMode = Str("VERTICAL") THEN <<"flex", "flex-col">>
                   ELSE <<>>
        gap     == IF Truthy(Get(n, "itemSpacing"))
                   THEN PrefixedClassOf("gap-", pxToTailwindSpacing(Get(n, "itemSpacing")))
                   ELSE <<>>
        bg      == IF Truthy(Get(n, "backgroundColor"))
                   THEN ClassOf(colorToTailwindClass(Get(n, "backgroundColor"), "bg"))
                   ELSE <<>>
        rounded == IF Truthy(Get(n, "cornerRadius"))
                   THEN PrefixedClassOf("rounded-",
                                        pxToTailwindBorderRadius(Get(n, "cornerRadius")))
                   ELSE <<>>
        border  == IF NonEmpty(strokes)
                   THEN ClassOf(colorToTailwindClass(Get(strokes.v[1], "color"), "border"))
                        \o (IF Truthy(Get(n, "strokeWeight"))
                            THEN PrefixedClassOf("border-",
                                     pxToTailwindBorderWidth(Get(n, "strokeWeight")))
                            ELSE <<"border">>)
                   ELSE <<>>
        width   == IF Truthy(box) /\ Truthy(Get(box, "width"))
                   THEN ClassOf(pxToTailwindSize(Get(box, "width"), "w")) ELSE <<>>
        height  == IF Truthy(box) /\ Truthy(Get(box, "height"))
                   THEN ClassOf(pxToTailwindSize(Get(box, "height"), "h")) ELSE <<>>
        shadow  == IF NonEmpty(effects) THEN extractShadowClasses(effects.v) ELSE Arr(<<>>)
    IN  IF IsThrow(shadow) THEN Throw
        ELSE Arr(StrArr(layout \o gap \o extractPaddingClasses(n) \o bg \o rounded
                            \o border \o width \o height).v \o shadow.v)

\* generateTailwindTextClasses(textNode)
generateTailwindTextClasses(textNode) ==
    LET style == Get(textNode, "style")
        fills == Get(textNode, "fills")
        Of(key, class) == IF Truthy(Get(style, key)) THEN ClassOf(class) ELSE <<>>
    IN  IF ~Truthy(style) THEN Arr(<<>>)
        ELSE StrArr(
            Of("fontFamily", fontFamilyToTailwind(Get(style, "fontFamily")))
            \o Of("fontSize", fontSizeToTailwind(Get(style, "fontSize")))
            \o Of("fontWeight", fontWeightToTailwind(Get(style, "fontWeight")))
            \o Of("lineHeightPx", lineHeightToTailwind(Get(style, "lineHeightPx")))
            \o Of("letterSpacing", letterSpacingToTailwind(Get(style, "letterSpacing")))
            \o Of("textAlignHorizontal",
                  textAlignToTailwind(Get(style, "textAlignHorizontal")))
            \o (IF NonEmpty(fills) /\ Truthy(Get(fills.v[1], "color"))
                THEN ClassOf(colorToTailwindClass(Get(fills.v[1], "color"), "text"))
                ELSE <<>>))

\* processChildren without its default: what is not a list is handed back.
processChildrenAsIs(children) ==
    IF children.t = "array" /\ Len(children.v) = 0 THEN Arr(<<>>) ELSE children

RECURSIVE processChildren(_)

\* The callback of children.map in processChildren: the summary of one child,
\* or Throw.
processChild(child) ==
    LET classes == generateTailwindClasses(child)
        nested  == processChildren(Get(child, "children"))
        base    == [id             |-> Get(child, "id"),
                    name           |-> Get(child, "name"),
                    type           |-> Get(child, "type"),
                    componentType  |-> Str(guessComponentType(child)),
                    properties     |-> extractProperties(child),
                    tailwindClasses |-> classes]
        text    == IF Get(child, "type") = Str("TEXT")
                   THEN [text                |-> Get(child, "characters"),
                         textStyle           |-> extractTextStyle(child),
                         tailwindTextClasses |-> generateTailwindTextClasses(child)]
                   ELSE <<>>
        kids    == IF NonEmpty(Get(child, "children"))
                   THEN [children |-> nested] ELSE <<>>
        inst    == IF Get(child, "type") = Str("INSTANCE")
                   THEN [componentId |-> Get(child, "componentId")]
                        @@ (IF Truthy(Get(child, "componentProperties"))
                            THEN [componentProperties |->
                                      Get(child, "componentProperties")]
                            ELSE <<>>)
                   ELSE <<>>
    IN  IF IsThrow(classes) \/ (NonEmpty(Get(child, "children")) /\ IsThrow(nested))
        THEN Throw
        ELSE Obj(base @@ text @@ kids @@ inst)

\* processChildren(children)
processChildren(children) ==
    LET results == [i \in 1..Len(children.v) |-> processChild(children.v[i])]
    IN  IF children.t # "array" THEN Arr(<<>>)
        ELSE IF AnyThrow(results) THEN Throw
        ELSE Arr(results)

RECURSIVE findTextNodes(_)
RECURSIVE findTextNodesIn(_)

\* node.children.forEach(child => findTextNodes(child, results))
findTextNodesIn(children) ==
    IF Len(children) = 0 THEN <<>>
    ELSE findTextNodes(children[1]) \o findTextNodesIn(Tail(children))

\* findTextNodes(node): the TEXT nodes of the tree, a parent before its children
findTextNodes(n) ==
    IF ~Truthy(n) THEN <<>>
    ELSE (IF Get(n, "type") = Str("TEXT") THEN <<n>> ELSE <<>>)
         \o (IF Get(n, "children").t = "array"
             THEN findTextNodesIn(Get(n, "children").v) ELSE <<>>)

\* toHex of rgbToHex
toHex(value) == PadStart2(ToHex(Round255(value.v)))

\* rgbToHex(r, g, b)
rgbToHex(r, g, b) == "#" \o toHex(r) \o toHex(g) \o toHex(b)

Digits == "0123456789"

\* c is one of the characters of s
CharIn(c, s) == \E i \in 1..Len(s) : Char(s, i) = c

RECURSIVE Dashed(_)
\* s.replace(/[^a-z0-9]/g, '-')
Dashed(s) ==
    IF s = "" THEN ""
    ELSE (IF CharIn(Char(s, 1), LowerCase) \/ CharIn(Char(s, 1), Digits)
          THEN Char(s, 1) ELSE "-") \o Dashed(SubSeq(s, 2, Len(s)))

RECURSIVE Squeezed(_)
\* s.replace(/-+/g, '-')
Squeezed(s) ==
    IF Len(s) < 2 THEN s
    ELSE IF Char(s, 1) = "-" /\ Char(s, 2) = "-" THEN Squeezed(SubSeq(s, 2, Len(s)))
    ELSE Char(s, 1) \o Squeezed(SubSeq(s, 2, Len(s)))

\* s.replace(/^-|-$/g, '')
Trimmed(s) ==
    LET t == IF StartsWith(s, "-") THEN SubSeq(s, 2, Len(s)) ELSE s
    IN  IF Len(t) > 0 /\ Char(t, Len(t)) = "-" THEN SubSeq(t, 1, Len(t) - 1) ELSE t

\* The value of one hexadecimal digit.
HexValue(c) == (CHOOSE i \in 1..16 : HexDigits[i] = c) - 1

\* parseInt(hexColor.substr(at, 2), 16)
ParseHexPair(hexColor, at) ==
    16 * HexValue(Char(hexColor, at + 1)) + HexValue(Char(hexColor, at + 2))

\* suggestColorName(componentName, hexColor): a string, or Throw when
\* componentName has no toLowerCase
suggestColorName(componentName, hexColor) ==
    LET baseName == Trimmed(Squeezed(Dashed(ToLowerCase(componentName.v))))
        r == ParseHexPair(hexColor, 1)
        g == ParseHexPair(hexColor, 3)
        b == ParseHexPair(hexColor, 5)
        colorFamily ==
            IF r > g /\ r > b THEN "red"
            ELSE IF g > r /\ g > b THEN "green"
            ELSE IF b > r /\ b > g THEN "blue"
            ELSE IF r = g /\ g = b THEN "gray"
            ELSE IF r > 200 /\ g > 200 /\ b < 100 THEN "yellow"
            ELSE IF r > 200 /\ g < 100 /\ b > 200 THEN "purple"
            ELSE IF r < 100 /\ g > 200 /\ b > 200 THEN "cyan"
            ELSE ""
        brightnessSuffix ==
            IF r + g + b < 3 * 85 THEN "dark"
            ELSE IF r + g + b > 3 * 170 THEN "light"
            ELSE ""
    IN  IF componentName.t # "string" THEN Throw
        ELSE IF hexColor = "#000000" THEN Str("black")
        ELSE IF hexColor = "#ffffff" THEN Str("white")
        ELSE IF Includes(baseName, colorFamily)
        THEN IF brightnessSuffix # ""
             THEN Str(baseName \o "-" \o brightnessSuffix) ELSE Str(baseName)
        ELSE IF brightnessSuffix # ""
             THEN Str(baseName \o "-" \o colorFamily \o "-" \o brightnessSuffix)
             ELSE Str(baseName \o "-" \o colorFamily)

RECURSIVE FlexOnly(_)
\* tailwindClasses.filter(c => c.startsWith('flex'))
FlexOnly(classes) ==
    IF Len(classes) = 0 THEN <<>>
    ELSE IF StartsWith(classes[1].v, "flex")
    THEN <<classes[1].v>> \o FlexOnly(Tail(classes))
    ELSE FlexOnly(Tail(classes))

\* guide.recommendedApproach, by the switch on the component type
recommendedApproach(componentType, tailwindClasses) ==
    IF componentType = "confirmation-dialog"
    THEN "\nThis appears to be a confirmation dialog component. Consider using:\n"
         \o "- Check if the host project already has a Dialog or Modal component\n"
         \o "- Use existing Button components for the actions\n"
         \o "- For the layout, use Tailwind flex utilities ("
         \o Join(FlexOnly(tailwindClasses), ", ") \o ")\n"
         \o "- If the project uses React, consider using headlessui/Dialog or similar accessible components\n"
    ELSE IF componentType = "button"
    THEN "\nThis appears to be a button component. Consider using:\n"
         \o "- Check if the host project already has a Button component with variants\n"
         \o "- For styling, use the Tailwind classes: "
         \o Join([i \in 1..Len(tailwindClasses) |-> tailwindClasses[i].v], " ") \o "\n"
         \o "- Match the existing button naming patterns in the project\n"
    ELSE "\nThis component can be implemented using the generated Tailwind classes.\n"
         \o "Look for similar components in the host project to maintain consistency.\n"

\* { name: suggestColorName(name, hexColor), value: hexColor }, or Throw
customColor(name, color) ==
    LET hexColor == rgbToHex(Get(color, "r"), Get(color, "g"), Get(color, "b"))
        suggested == suggestColorName(name, hexColor)
    IN  IF IsThrow(suggested) THEN Throw
        ELSE Obj([name |-> suggested, value |-> Str(hexColor)])

\* The callback of textNodes.forEach without the test of the Tailwind class:
\* every SOLID first fill adds a custom colour.
textNodeColorsUntested(textNode) ==
    IF /\ NonEmpty(Get(textNode, "fills"))
       /\ Get(Get(textNode, "fills").v[1], "type") = Str("SOLID")
       /\ Get(Get(textNode, "fills").v[1], "color").t = "object"
    THEN <<customColor(Str(ToStr(Get(textNode, "name")) \o "-text"),
                       Get(Get(textNode, "fills").v[1], "color"))>>
    ELSE <<>>

\* The callback of textNodes.forEach in generateImplementationGuide: the
\* custom colours a text node adds, or <<Throw>> when its first fill is SOLID
\* and has no colour to destructure.
textNodeColors(textNode) ==
    LET fills == Get(textNode, "fills")
        fill  == fills.v[1]
        color == Get(fill, "color")
    IN  IF ~NonEmpty(fills) THEN <<>>
        ELSE IF /\ Get(fill, "type") = Str("SOLID")
                /\ colorToTailwindClass(color, "text") = Null
        THEN IF color.t \in {"undefined", "null"} THEN <<Throw>>
             ELSE <<customColor(Str(ToStr(Get(textNode, "name")) \o "-text"), color)>>
        ELSE <<>>

RECURSIVE textColors(_)
\* The custom colours of the text nodes, in order.
textColors(textNodes) ==
    IF Len(textNodes) = 0 THEN <<>>
    ELSE textNodeColors(textNodes[1]) \o textColors(Tail(textNodes))

\* generateImplementationGuide(node): the guide, or Throw
generateImplementationGuide(n) ==
    LET tailwindClasses == generateTailwindClasses(n)
        background == Get(n, "backgroundColor")
        own  == IF /\ Truthy(background)
                   /\ colorToTailwindClass(background, "bg") = Null
                THEN <<customColor(Get(n, "name"), background)>> ELSE <<>>
        text == IF Truthy(Get(n, "children")) THEN textColors(findTextNodes(n)) ELSE <<>>
    IN  IF IsThrow(tailwindClasses) \/ AnyThrow(own \o text) THEN Throw
        ELSE Obj([recommendedApproach |->
                      Str(recommendedApproach(guessComponentType(n), tailwindClasses.v)),
                  tailwindConfig |->
                      Obj([customColors     |-> Arr(own \o text),
                           customFontFamily |-> Arr(<<>>),
                           customSpacing    |-> Arr(<<>>)])])

\* The optimizedData of optimizeFigmaData, from the parts that can raise;
\* Throw when one of them did.
optimizedData(figmaNode, document, hints, classes, children, guide) ==
    IF IsThrow(hints) \/ IsThrow(classes) \/ IsThrow(children) \/ IsThrow(guide)
    THEN Throw
    ELSE Obj([originalData |-> figmaNode,
              component |->
                  Obj([name                |-> Get(document, "name"),
                       type                |-> Get(document, "type"),
                       id                  |-> Get(document, "id"),
                       componentType       |-> Str(guessComponentType(document)),
                       componentHints      |-> hints,
                       properties          |-> extractProperties(document),
                       tailwindClasses     |-> classes,
                       children            |-> children,
                       styles              |-> extractStyles(document,
                                                   Get(figmaNode, "styles")),
                       variants            |-> extractVariants(document),
                       interactionPatterns |-> extractInteractions(document),
                       implementationGuide |-> guide])])

\* optimizeFigmaData(figmaNode): the optimised data, or Throw
optimizeFigmaData(figmaNode) ==
    IF ~Truthy(figmaNode) \/ ~Truthy(Get(figmaNode, "document")) THEN figmaNode
    ELSE optimizedData(figmaNode, Get(figmaNode, "document"),
                       generateComponentHints(Get(figmaNode, "document")),
                       generateTailwindClasses(Get(figmaNode, "document")),
                       processChildren(Get(Get(figmaNode, "document"), "children")),
                       generateImplementationGuide(Get(figmaNode, "document")))

----------------------------------------------------------------------------
(* JSON.  A JSON text is modelled by its syntax tree: null, a boolean, a    *)
(* number, a string, an array of texts or an object whose members are       *)
(* texts.  It has no way to write undefined.                                *)

RECURSIVE JSONStringify(_)
\* JSON.stringify(value, null, 2): a member that holds undefined is left
\* out, an array element that is undefined is written as null.
JSONStringify(x) ==
    CASE x.t = "object" ->
           [j |-> "object",
            members |-> [k \in {key \in DOMAIN x.v : x.v[key] # Undefined} |->
                            JSONStringify(x.v[k])]]
      [] x.t = "array" ->
           [j |-> "array",
            elements |-> [i \in 1..Len(x.v) |->
                             IF x.v[i] = Undefined THEN [j |-> "null"]
                             ELSE JSONStringify(x.v[i])]]
      [] x.t = "null" -> [j |-> "null"]
      [] OTHER -> [j |-> x.t, literal |-> x.v]

RECURSIVE JSONParse(_)
\* JSON.parse(text)
JSONParse(text) ==
    CASE text.j = "object" ->
           Obj([k \in DOMAIN text.members |-> JSONParse(text.members[k])])
      [] text.j = "array" ->
           Arr([i \in 1..Len(text.elements) |-> JSONParse(text.elements[i])])
      [] text.j = "null" -> Null
      [] OTHER -> [t |-> text.j, v |-> text.literal]

----------------------------------------------------------------------------
(* The raw nodes the model is run on.  A raw node is what JSON.parse gives   *)
(* for a node of the API's response: every key is absent or holds a JSON    *)
(* value.  The nodes differ from a plain frame in one group of fields at a   *)
(* time (identity, geometry, corners, fills, strokes, effects, layout, text, *)
(* instance, children).                                                      *)

\* The longest fills, effects and children list.
MaxList == 2

\* A key left out of a raw node.
Absent == [t |-> "absent"]

\* The field k |-> x, or no field when x is Absent.
Opt(k, x) == IF x = Absent THEN <<>> ELSE (k :> x)

\* The lists of at most MaxList elements of S.
Lists(S) == UNION {[1..m -> S] : m \in 0..MaxList}

\* A colour, its components in thousandths.
Color(r, g, b, a) ==
    Obj(Opt("a", a) @@ [r |-> Milli(r), g |-> Milli(g), b |-> Milli(b)])

Blue      == Color(0, 400, 1000, Num(1))
White     == Color(1000, 1000, 1000, Absent)
HalfBlack == Color(0, 0, 0, Milli(500))

PlainFrame == [id |-> Str("1:1"), name |-> Str("Btn"), type |-> Str("FRAME")]

\* A colour with no Tailwind class.
Brown     == Color(500, 300, 100, Absent)

\* The nodes that differ in the keys every node is read for; the name may be
\* missing.
IdentityNodes ==
    {Obj(Opt("name", nm) @@ Opt("visible", vis) @@ Opt("backgroundColor", bg)
            @@ [id |-> id, type |-> ty]) :
        id  \in {Str("1:1"), Str("2:7")},
        nm  \in {Absent, Str("Btn"), Str("Cancel Button")},
        ty  \in {Str("FRAME"), Str("TEXT"), Str("INSTANCE")},
        vis \in {Absent, Null, Bool(TRUE), Bool(FALSE), Num(0)},
        bg  \in {Absent, Brown}}

Box == Obj([x |-> Num(0), y |-> Num(0), width |-> Num(100), height |-> Num(40)])

GeometryFields ==
    {Opt("absoluteBoundingBox", box) @@ Opt("rotation", rot)
        @@ Opt("backgroundColor", bg) @@ Opt("cornerRadius", cr)
        @@ Opt("constraints", con) :
        box \in {Absent, Box},
        rot \in {Absent, Num(0), Num(90)},
        bg  \in {Absent, Blue, White, HalfBlack},
        cr  \in {Absent, Num(4)},
        con \in {Absent, Obj([vertical |-> Str("TOP"), horizontal |-> Str("LEFT")])}}

Radii == {Absent, Num(0), Num(4)}

CornerFields ==
    {Opt("cornerRadius", cr) @@ Opt("topLeftRadius", tl) @@ Opt("topRightRadius", tr)
        @@ Opt("bottomLeftRadius", bl) @@ Opt("bottomRightRadius", br) :
        cr \in Radii, tl \in Radii, tr \in Radii, bl \in Radii, br \in Radii}

Stops == Arr(<<Obj([position |-> Num(0), color |-> Blue]),
               Obj([position |-> Num(1), color |-> HalfBlack])>>)

Fills ==
    {Obj([type |-> Str("SOLID"), color |-> Blue]),
     Obj([type |-> Str("SOLID"), color |-> HalfBlack, opacity |-> Milli(500)]),
     Obj([type |-> Str("SOLID")]),
     Obj([type |-> Str("GRADIENT_LINEAR"), gradientStops |-> Stops]),
     Obj([type |-> Str("GRADIENT_RADIAL"), gradientStops |-> Stops,
          gradientHandlePositions |-> Arr(<<Num(0), Num(1)>>)]),
     Obj([type |-> Str("GRADIENT_LINEAR")]),
     Obj([type |-> Str("IMAGE"), imageRef |-> Str("img"), scaleMode |-> Str("FILL")])}

FillFields == {Opt("fills", Arr(l)) : l \in Lists(Fills)}

StrokeFields ==
    {Opt("strokes", s) @@ Opt("strokeWeight", w) @@ Opt("strokeAlign", al) :
        s  \in {Absent, Arr(<<>>), Arr(<<Obj([type |-> Str("SOLID"), color |-> Blue])>>),
                Arr(<<Obj([type |-> Str("SOLID")])>>),
                Arr(<<Obj([type |-> Str("GRADIENT_LINEAR")])>>)},
        w  \in {Absent, Num(0), Num(2)},
        al \in {Absent, Str("INSIDE")}}

Offset(x, y) == Obj([x |-> Num(x), y |-> Num(y)])

Effects ==
    {Obj([type |-> Str("DROP_SHADOW"), color |-> HalfBlack, offset |-> Offset(0, 8),
          radius |-> Num(16), spread |-> Num(0)]),
     Obj([type |-> Str("DROP_SHADOW"), color |-> HalfBlack, offset |-> Offset(0, 1),
          radius |-> Num(2), visible |-> Bool(TRUE)]),
     Obj([type |-> Str("DROP_SHADOW"), color |-> HalfBlack, radius |-> Num(16)]),
     Obj([type |-> Str("DROP_SHADOW"), offset |-> Offset(0, 4), radius |-> Num(8),
          visible |-> Bool(FALSE)]),
     Obj([type |-> Str("INNER_SHADOW"), color |-> Blue, offset |-> Offset(1, 1),
          radius |-> Num(4)]),
     Obj([type |-> Str("LAYER_BLUR"), radius |-> Num(4)])}

EffectFields == {Opt("effects", Arr(l)) : l \in Lists(Effects)}

Paddings == {Absent, Num(0), Num(8)}

LayoutFields ==
    {Opt("layoutMode", mode) @@ Opt("itemSpacing", gap) @@ Opt("layoutWrap", wrap)
        @@ Opt("paddingLeft", pl) @@ Opt("paddingRight", pr)
        @@ Opt("paddingTop", pt) @@ Opt("paddingBottom", pb)
        @@ Opt("primaryAxisSizingMode", sizing) :
        mode   \in {Absent, Str("HORIZONTAL"), Str("VERTICAL")},
        gap    \in {Absent, Num(0), Num(8)},
        wrap   \in {Absent, Str("NO_WRAP")},
        pl     \in {Absent, Num(8)},
        pr     \in {Absent, Num(8)},
        pt     \in Paddings,
        pb     \in {Absent, Num(8)},
        sizing \in {Absent, Str("FIXED")}}

Styles ==
    {Absent,
     EmptyObj,
     Obj([fontFamily |-> Str("Inter"), fontSize |-> Num(16), fontWeight |-> Num(500),
          lineHeightPx |-> Num(24), letterSpacing |-> Num(0),
          textAlignHorizontal |-> Str("CENTER"), textAlignVertical |-> Str("TOP"),
          textCase |-> Str("UPPER"), textDecoration |-> Str("UNDERLINE")]),
     Obj([fontFamily |-> Str("Inter"), lineHeightPercentFontSize |-> Num(120)])}

TextFields ==
    {Opt("characters", ch) @@ Opt("style", st) @@ Opt("fills", f)
        @@ [type |-> Str("TEXT")] :
        ch \in {Absent, Str("Click Me")},
        st \in Styles,
        f  \in {Absent, Arr(<<Obj([type |-> Str("SOLID"), color |-> White])>>),
                Arr(<<Obj([type |-> Str("SOLID")])>>)}}

InstanceFields ==
    {Opt("componentId", cid) @@ Opt("componentProperties", cp)
        @@ [type |-> ty] :
        cid \in {Absent, Str("9:9")},
        cp  \in {Absent,
                 Obj([State |-> Obj([type |-> Str("VARIANT"), value |-> Str("Hover")])]),
                 Obj([Enabled |-> Obj([type |-> Str("BOOLEAN"), value |-> Bool(TRUE)])])},
        ty  \in {Str("INSTANCE"), Str("FRAME")}}

\* The nodes used as children: leaves, and one node with a child of its own.
Leaf(id, fields) == Obj(fields @@ [id |-> Str(id), name |-> Str("Leaf"), type |-> Str("FRAME")])

Children ==
    {Leaf("2:1", <<>>),
     Leaf("2:2", [type |-> Str("TEXT"), characters |-> Str("Click Me")]),
     Leaf("2:3", [cornerRadius |-> Num(4), topLeftRadius |-> Num(4)]),
     Leaf("2:4", [layoutMode |-> Str("HORIZONTAL")]),
     Leaf("2:5", [visible |-> Bool(FALSE),
                  children |-> Arr(<<Leaf("3:1", <<>>), Leaf("3:2", <<>>)>>)]),
     Leaf("2:6", [fills |-> Arr(<<Obj([type |-> Str("GRADIENT_LINEAR")])>>)])}

ChildrenFields == {Opt("children", Arr(l)) : l \in Lists(Children)}

RawNodes ==
    IdentityNodes \cup
    {Obj(f @@ PlainFrame) :
        f \in GeometryFields \cup CornerFields \cup FillFields
              \cup StrokeFields \cup EffectFields \cup LayoutFields \cup TextFields
              \cup InstanceFields \cup ChildrenFields}

----------------------------------------------------------------------------
(* The normaliser and the renderers, each run once on the raw node *)

\* The extract command is not running.
CliIdle ==
    /\ options = [format |-> Str("json"), optimize |-> FALSE, output |-> Undefined]
    /\ pc = "idle"
    /\ metadata = NotYet
    /\ processedData = NotYet
    /\ output = NotYet
    /\ logged = <<>>
    /\ errors = <<>>
    /\ written = <<>>
    /\ exitCode = NotYet

\* No colour is being formatted.
ColorIdle == rawColor = Null /\ formatted = NotYet /\ twClass = NotYet

\* No part of the optimiser has been run on its own.
PartsIdle ==
    /\ guessedType = NotYet
    /\ componentHints = NotYet
    /\ shadowClasses = NotYet
    /\ implementationGuide = NotYet

\* findNodeById is not running.
FindIdle == searchId = Null /\ bfsQueue = <<>> /\ foundNode = NotYet

\* No command has touched the token file, the URL or the API.
AuthIdle ==
    /\ tokenFile = [t |-> "absent"]
    /\ authToken = NotYet
    /\ promptCount = 0
    /\ figmaUrl = Null
    /\ urlParts = NotYet
    /\ requestLog = <<>>

\* FigmaClient.request is not running.
HttpIdle == httpReply = Null /\ requestOutcome = NotYet

\* None of the utilities is running.
ToolsIdle == FindIdle /\ AuthIdle /\ HttpIdle /\ paddingClasses = NotYet

\* No number is being put on a ladder.
ScaleIdle == scaleInput = Null /\ spacing = NotYet /\ tracking = NotYet

\* Nothing has been computed from the raw node.
NothingComputed ==
    /\ properties = NotYet
    /\ prompt = NotYet
    /\ parsed = NotYet
    /\ rawResponse = NotYet
    /\ optimized = NotYet

Init ==
    /\ node \in RawNodes
    /\ NothingComputed
    /\ CliIdle
    /\ ColorIdle
    /\ PartsIdle
    /\ ToolsIdle
    /\ ScaleIdle

\* properties = figma.extractNodeProperties(node)
Normalize ==
    /\ properties = NotYet
    /\ properties' = extractNodeProperties(node)
    /\ UNCHANGED <<node, prompt, parsed, rawResponse, optimized, cliVars,
                   colorVars, partVars, scaleVars, toolVars>>

\* A step has run and returned a value.
Returned(x) == x.t \notin {"notyet", "throw"}

\* prompt = figma.generateAIPrompt(properties)
RenderPrompt ==
    /\ Returned(properties)
    /\ prompt = NotYet
    /\ prompt' = generateAIPrompt(properties)
    /\ UNCHANGED <<node, properties, parsed, rawResponse, optimized, cliVars,
                   colorVars, partVars, scaleVars, toolVars>>

\* parsed = JSON.parse(JSON.stringify(properties, null, 2))
RoundTrip ==
    /\ Returned(properties)
    /\ parsed = NotYet
    /\ parsed' = JSONParse(JSONStringify(properties))
    /\ UNCHANGED <<node, properties, prompt, rawResponse, optimized, cliVars,
                   colorVars, partVars, scaleVars, toolVars>>

\* What optimizeFigmaData is called with for a node: the API's answer for the
\* node, with or without the styles of the file, an answer that has no
\* document, null, or nothing.
Responses(n) ==
    {Obj([document |-> n]),
     Obj([document |-> n, styles |-> Obj([S1 |-> Obj([name |-> Str("Primary")])])]),
     Obj([err |-> Str("Not found"), status |-> Num(404)]),
     Obj([document |-> Null]),
     Null,
     Undefined}

\* optimized = optimizeFigmaData(figmaNode)
Optimize ==
    /\ optimized = NotYet
    /\ \E response \in Responses(node) :
           /\ rawResponse' = response
           /\ optimized' = optimizeFigmaData(response)
    /\ UNCHANGED <<node, properties, prompt, parsed, cliVars, colorVars, partVars,
                   scaleVars, toolVars>>

Next == Normalize \/ RenderPrompt \/ RoundTrip \/ Optimize

Spec == Init /\ [][Next]_vars

----------------------------------------------------------------------------
(* index.js: the extract command *)

\* What --format can be given as; Absent is the flag left out.
FormatFlags ==
    {Absent, Str("json"), Str("yaml"), Str("ai-prompt"), Str("bullet"),
     Str("summary"), Str("xml")}

\* .option('-f, --format <format>', ..., 'json'): the value of options.format
formatOption(flag) == IF flag = Absent THEN Str("json") ELSE flag

\* The documents the command is run on.
ExtractNodes ==
    {Obj(PlainFrame),
     Obj([absoluteBoundingBox |-> Box, backgroundColor |-> Blue,
          cornerRadius |-> Num(4)] @@ PlainFrame),
     Obj([layoutMode |-> Str("HORIZONTAL")] @@ PlainFrame),
     Obj([fills |-> Arr(<<Obj([type |-> Str("SOLID")])>>)] @@ PlainFrame),
     Obj([children |-> Arr(<<Leaf("2:1", <<>>)>>)] @@ PlainFrame)}

\* The messages of the errors fetchNodeMetadata raises.
FetchErrors ==
    {"Invalid Figma URL. Please provide a valid URL from Figma.",
     "Could not access Figma design. Please use a file URL instead."}

\* The message of the TypeError that reading a property of undefined raises.
TypeErrorMessage == "Cannot read properties of undefined"

\* yaml.default.dump(value): the YAML document of the value.  As in
\* JSON.stringify, a member that holds undefined is left out.
yamlDump(value) == [y |-> "document", root |-> JSONStringify(value)]

InitExtract ==
    /\ node \in ExtractNodes
    /\ NothingComputed
    /\ ColorIdle
    /\ PartsIdle
    /\ ToolsIdle
    /\ ScaleIdle
    /\ options \in {[format |-> formatOption(flag), optimize |-> opt, output |-> out] :
                       flag \in FormatFlags, opt \in BOOLEAN,
                       out \in {Undefined, Str("out.txt")}}
    /\ pc = "start"
    /\ metadata = NotYet
    /\ processedData = NotYet
    /\ output = NotYet
    /\ logged = <<>>
    /\ errors = <<>>
    /\ written = <<>>
    /\ exitCode = NotYet

\* The catch of the command ending the process with exit code 0.
CaughtQuietly(message) ==
    /\ errors' = Append(errors, Str("Error: " \o message))
    /\ exitCode' = Num(0)
    /\ pc' = "exited"

\* catch (error) { console.error(`Error: ${error.message}`); process.exit(1) }
Caught(message) ==
    /\ errors' = Append(errors, Str("Error: " \o message))
    /\ exitCode' = Num(1)
    /\ pc' = "exited"

\* const metadata = await fetchNodeMetadata(url, options.verbose): the
\* metadata of the node, an error, or process.exit(1) when the answer does not
\* hold the node.
ExtractFetch ==
    /\ pc = "start"
    /\ \/ /\ metadata' = Obj([document |-> node])
          /\ pc' = "fetched"
          /\ UNCHANGED <<errors, exitCode>>
       \/ /\ \E message \in FetchErrors : Caught(message)
          /\ UNCHANGED metadata
       \/ /\ errors' = Append(errors, Str("No nodes were found in the response."))
          /\ exitCode' = Num(1)
          /\ pc' = "exited"
          /\ UNCHANGED metadata
    /\ UNCHANGED <<options, processedData, output, logged, written, normVars,
                   colorVars, partVars, scaleVars, toolVars>>

\* The formatting of processedData: the text is
\* JSON.stringify(processedData, null, 2) for 'json', the YAML dump for
\* 'yaml', and any other format is an error; data is Throw when
\* optimizeFigmaData raised.
formatData(data) ==
    IF IsThrow(data)
    THEN /\ processedData' = metadata
         /\ Caught(TypeErrorMessage)
         /\ UNCHANGED output
    ELSE /\ processedData' = data
         /\ IF options.format = Str("json")
            THEN /\ output' = JSONStringify(data)
                 /\ pc' = "formatted"
                 /\ UNCHANGED <<errors, exitCode>>
            ELSE IF options.format = Str("yaml")
            THEN /\ output' = yamlDump(data)
                 /\ pc' = "formatted"
                 /\ UNCHANGED <<errors, exitCode>>
            ELSE /\ Caught("Unsupported format: " \o options.format.v)
                 /\ UNCHANGED output

\* From the metadata to the formatted text: processedData is the metadata, or
\* optimizeFigmaData(metadata) under --optimize.
ExtractFormat ==
    /\ pc = "fetched"
    /\ formatData(IF options.optimize THEN optimizeFigmaData(metadata) ELSE metadata)
    /\ UNCHANGED <<options, metadata, logged, written, normVars,
                   colorVars, partVars, scaleVars, toolVars>>

\* The text goes to the file of --output, or to the standard output; the
\* command then ends and the process exits with 0.
ExtractOutput ==
    /\ pc = "formatted"
    /\ IF Truthy(options.output)
       THEN /\ written' = Append(written, [path |-> options.output.v, data |-> output])
            /\ logged' = Append(logged, Str("Metadata saved to " \o options.output.v))
       ELSE /\ logged' = Append(logged, output)
            /\ UNCHANGED written
    /\ exitCode' = Num(0)
    /\ pc' = "exited"
    /\ UNCHANGED <<options, metadata, processedData, output, errors, normVars,
                   colorVars, partVars, scaleVars, toolVars>>

NextExtract == ExtractFetch \/ ExtractFormat \/ ExtractOutput

SpecExtract == InitExtract /\ [][NextExtract]_vars

----------------------------------------------------------------------------
(* FigmaClient.formatColor on its own *)

\* The channels, in thousandths: among them 0.1 and 0.5, whose 255-fold lies
\* half way between two integers.
Channels == {0, 40, 100, 400, 500, 1000}

\* The alphas, in thousandths; Absent is a colour without a.
Alphas == {Absent, Milli(0), Milli(250), Milli(500), Milli(1000)}

InitColor ==
    /\ node = Obj(PlainFrame)
    /\ NothingComputed
    /\ CliIdle
    /\ rawColor \in {Color(r, g, b, a) : r \in Channels, g \in Channels, b \in Channels,
                                      a \in Alphas}
    /\ formatted = NotYet
    /\ twClass = NotYet
    /\ PartsIdle
    /\ ToolsIdle
    /\ ScaleIdle

\* formatted = figma.formatColor(rawColor)
FormatColor ==
    /\ formatted = NotYet
    /\ formatted' = formatColor(rawColor)
    /\ UNCHANGED <<rawColor, twClass, normVars, cliVars, partVars, scaleVars, toolVars>>

NextColor == FormatColor

SpecColor == InitColor /\ [][NextColor]_vars

----------------------------------------------------------------------------
(* index.js: the parts of the optimiser, each run once on a node *)

\* A child named name.
Named(name) == Obj([id |-> Str("2:1"), name |-> Str(name), type |-> Str("FRAME")])

\* The nodes guessComponentType is run on: the names put the rules in
\* competition, and the type, the corner radius and the children are those the
\* rules read.
ClassifyNodes ==
    {Obj(Opt("name", nm) @@ Opt("cornerRadius", cr) @@ Opt("children", ch)
            @@ [id |-> Str("1:1"), type |-> ty]) :
        nm \in {Absent, Str(""), Str("Btn"), Str("Icon"), Str("Cancel"),
                Str("Cancel Modal"), Str("Cancel Button"), Str("CANCEL order"),
                Str("Alert Dialog"), Str("Product Card"), Str("Login Form Card"),
                Str("Toast Input")},
        ty \in {Str("FRAME"), Str("INSTANCE")},
        cr \in {Absent, Num(0), Num(4)},
        ch \in {Absent, Arr(<<>>), Arr(<<Named("Title")>>),
                Arr(<<Named("Title"), Named("Modal Body")>>)}}

\* The nodes generateComponentHints is run on.
HintNodes ==
    {Obj(Opt("name", nm) @@ Opt("fills", f) @@ [id |-> Str("1:1"), type |-> ty]) :
        nm \in {Absent, Str(""), Str("Btn"), Str("Cancel Button"), Str("cancel")},
        ty \in {Str("FRAME"), Str("INSTANCE")},
        f  \in {Absent, Arr(<<>>),
                Arr(<<Obj([type |-> Str("SOLID"), color |-> Blue])>>),
                Arr(<<Obj([type |-> Str("GRADIENT_LINEAR"), gradientStops |-> Stops])>>),
                Arr(<<Obj([type |-> Str("SOLID"), color |-> Brown]),
                      Obj([type |-> Str("IMAGE"), imageRef |-> Str("img")]),
                      Obj([type |-> Str("SOLID"), color |-> White])>>),
                Arr(<<Obj([type |-> Str("SOLID")])>>)}}

\* A drop shadow of a radius and a vertical offset.
Shadow(radius, y) ==
    Obj([type |-> Str("DROP_SHADOW"), color |-> HalfBlack, offset |-> Offset(0, y),
         radius |-> Num(radius)])

\* The effects extractShadowClasses is run on: a shadow of each tier, shadows
\* that reach the radius of a tier and not its offset, a shadow of no tier, a
\* hidden one, one without offset, and an effect that is no drop shadow.
ShadowEffects ==
    {Shadow(16, 8), Shadow(8, 4), Shadow(3, 0), Shadow(2, 1), Shadow(16, 4),
     Shadow(16, 0),
     Obj([visible |-> Bool(FALSE)] @@ Shadow(16, 8).v),
     Obj([type |-> Str("DROP_SHADOW"), color |-> HalfBlack, radius |-> Num(8)]),
     Obj([type |-> Str("INNER_SHADOW"), color |-> Blue, offset |-> Offset(0, 8),
          radius |-> Num(16)])}

ShadowNodes == {Obj(Opt("effects", Arr(l)) @@ PlainFrame) : l \in Lists(ShadowEffects)}


\* A text node whose fills are fills.
Text(id, fills) ==
    Obj(Opt("fills", fills) @@ [id |-> Str(id), name |-> Str("Label"),
                                type |-> Str("TEXT"), characters |-> Str("Click Me")])

Solid(color) == Obj([type |-> Str("SOLID"), color |-> color])

\* A colour whose green and blue are further apart than each is from its red.
Olive == Color(392, 427, 357, Absent)

\* The nodes generateImplementationGuide is run on: the background and the
\* first fill of a text are colours with a Tailwind class (blue, white, black,
\* a gray, a half-transparent brown) or without one (brown); a text is a
\* child, a grandchild or the node itself.
GuideNodes ==
    {Obj(Opt("name", nm) @@ Opt("backgroundColor", bg) @@ Opt("children", ch)
            @@ Opt("fills", f) @@ [id |-> Str("1:1"), type |-> ty]) :
        nm \in {Absent, Str("Btn")},
        bg \in {Absent, Blue, Brown, White, HalfBlack, Olive,
                Color(500, 300, 100, Milli(500))},
        ch \in {Absent,
                Arr(<<Text("2:1", Arr(<<Solid(Brown)>>))>>),
                Arr(<<Text("2:1", Arr(<<Solid(White)>>))>>),
                Arr(<<Text("2:1", Arr(<<Solid(Blue), Solid(Brown)>>)),
                      Text("2:2", Absent)>>),
                Arr(<<Leaf("2:3", [children |->
                                      Arr(<<Text("3:1", Arr(<<Solid(Brown)>>))>>)])>>),
                Arr(<<Text("2:1", Arr(<<Obj([type |-> Str("GRADIENT_LINEAR"),
                                             gradientStops |-> Stops])>>))>>),
                Arr(<<Text("2:1", Arr(<<Obj([type |-> Str("SOLID")])>>))>>)},
        f  \in {Absent, Arr(<<Solid(Brown)>>)},
        ty \in {Str("FRAME"), Str("TEXT")}}

PartNodes == ClassifyNodes \cup HintNodes \cup ShadowNodes \cup GuideNodes

InitParts ==
    /\ node \in PartNodes
    /\ NothingComputed
    /\ CliIdle
    /\ ColorIdle
    /\ PartsIdle
    /\ ToolsIdle
    /\ ScaleIdle

\* guessedType = guessComponentType(node)
Classify ==
    /\ guessedType = NotYet
    /\ guessedType' = Str(guessComponentType(node))
    /\ UNCHANGED <<componentHints, shadowClasses, implementationGuide, normVars,
                   cliVars, colorVars, scaleVars, toolVars>>

\* componentHints = generateComponentHints(node)
Hint ==
    /\ componentHints = NotYet
    /\ componentHints' = generateComponentHints(node)
    /\ UNCHANGED <<guessedType, shadowClasses, implementationGuide, normVars,
                   cliVars, colorVars, scaleVars, toolVars>>

\* if (node.effects && node.effects.length > 0)
\*   shadowClasses = extractShadowClasses(node.effects)
Shadows ==
    /\ shadowClasses = NotYet
    /\ NonEmpty(Get(node, "effects"))
    /\ shadowClasses' = extractShadowClasses(Get(node, "effects").v)
    /\ UNCHANGED <<guessedType, componentHints, implementationGuide, normVars,
                   cliVars, colorVars, scaleVars, toolVars>>

\* implementationGuide = generateImplementationGuide(node)
Guide ==
    /\ implementationGuide = NotYet
    /\ implementationGuide' = generateImplementationGuide(node)
    /\ UNCHANGED <<guessedType, componentHints, shadowClasses, normVars,
                   cliVars, colorVars, scaleVars, toolVars>>

NextParts == Classify \/ Hint \/ Shadows \/ Guide

SpecParts == InitParts /\ [][NextParts]_vars

----------------------------------------------------------------------------
(* index.js: the Tailwind ladders, each run once on a number *)

\* The largest number of pixels put on the ladders.
MaxPx == 60

\* The largest letter spacing put on the ladders, in steps of 0.005.
MaxTrackingStep == 30

\* The numbers put on the ladders: the halves of a pixel from -2 to MaxPx, and
\* the letter spacings from -0.1 on, in steps of 0.005.
ScaleInputs ==
    {Milli(500 * k) : k \in -4..(2 * MaxPx)}
    \cup {Milli(5 * k) : k \in -20..MaxTrackingStep}

InitScale ==
    /\ node = Obj(PlainFrame)
    /\ NothingComputed
    /\ CliIdle
    /\ ColorIdle
    /\ PartsIdle
    /\ ToolsIdle
    /\ scaleInput \in ScaleInputs
    /\ spacing = NotYet
    /\ tracking = NotYet

\* spacing = pxToTailwindSpacing(scaleInput)
Spacing ==
    /\ spacing = NotYet
    /\ spacing' = pxToTailwindSpacing(scaleInput)
    /\ UNCHANGED <<scaleInput, tracking, normVars, cliVars, colorVars, partVars,
                   toolVars>>

\* tracking = letterSpacingToTailwind(scaleInput)
Tracking ==
    /\ tracking = NotYet
    /\ tracking' = letterSpacingToTailwind(scaleInput)
    /\ UNCHANGED <<scaleInput, spacing, normVars, cliVars, colorVars, partVars,
                   toolVars>>

NextScale == Spacing \/ Tracking

SpecScale == InitScale /\ [][NextScale]_vars

----------------------------------------------------------------------------
(* index.js: colorToTailwindClass on its own *)

\* The channels, in thousandths: 0, 91, 100, 109, 110, 153 and 255 of 255.
PaletteChannels == {0, 357, 392, 427, 431, 600, 1000}

InitPalette ==
    /\ node = Obj(PlainFrame)
    /\ NothingComputed
    /\ CliIdle
    /\ PartsIdle
    /\ ToolsIdle
    /\ ScaleIdle
    /\ rawColor \in {Color(r, g, b, a) : r \in PaletteChannels, g \in PaletteChannels,
                                         b \in PaletteChannels,
                                         a \in {Absent, Milli(100), Milli(500)}}
    /\ formatted = NotYet
    /\ twClass = NotYet

\* twClass = colorToTailwindClass(rawColor, 'bg')
TailwindColor ==
    /\ twClass = NotYet
    /\ twClass' = colorToTailwindClass(rawColor, "bg")
    /\ UNCHANGED <<rawColor, formatted, normVars, cliVars, partVars, scaleVars, toolVars>>

NextPalette == TailwindColor

SpecPalette == InitPalette /\ [][NextPalette]_vars

----------------------------------------------------------------------------
(* FigmaClient.findNodeById, one turn of its loop at a time *)

\* A node of a tree: an id and, when kids is not Absent, children.
Tree(id, kids) == Obj(Opt("children", kids) @@ [id |-> Str(id)])

\* The subtrees of the documents: leaves and nodes with children, some ids
\* being those of several nodes, at the same depth and at different ones.
Subtrees ==
    {Tree("a", Absent), Tree("b", Absent), Tree("c", Arr(<<>>)),
     Tree("c", Arr(<<Tree("a", Absent)>>)),
     Tree("a", Arr(<<Tree("b", Absent)>>)),
     Tree("d", Arr(<<Tree("b", Absent), Tree("e", Arr(<<Tree("a", Absent)>>))>>)),
     Tree("b", Arr(<<Tree("e", Absent), Tree("e", Arr(<<Tree("c", Absent)>>))>>))}

\* The documents findNodeById is run on.
Documents == {Tree("0:0", Arr(l)) : l \in Lists(Subtrees)}

\* The ids looked for; no node has the id z.
SearchIds == {Str("0:0"), Str("a"), Str("b"), Str("c"), Str("e"), Str("z")}

\* queue.push(...children), with the children first.
pushFront(queue, children) == children \o queue

\* queue.push(...children)
push(queue, children) == queue \o children

\* const queue = [document]
InitFind ==
    /\ node \in Documents
    /\ NothingComputed
    /\ CliIdle
    /\ ColorIdle
    /\ PartsIdle
    /\ ScaleIdle
    /\ AuthIdle
    /\ HttpIdle
    /\ paddingClasses = NotYet
    /\ searchId \in SearchIds
    /\ bfsQueue = <<node>>
    /\ foundNode = NotYet

\* One turn of the loop: the head of the queue is returned when it has the id,
\* and is replaced by its children, at the end of the queue, when it has not.
FindVisit ==
    /\ foundNode = NotYet
    /\ Len(bfsQueue) > 0
    /\ IF Get(Head(bfsQueue), "id") = searchId
       THEN /\ foundNode' = Head(bfsQueue)
            /\ bfsQueue' = Tail(bfsQueue)
       ELSE /\ bfsQueue' =
                   IF Truthy(Get(Head(bfsQueue), "children"))
                      /\ Get(Head(bfsQueue), "children").t = "array"
                   THEN push(Tail(bfsQueue), Get(Head(bfsQueue), "children").v)
                   ELSE Tail(bfsQueue)
            /\ UNCHANGED foundNode
    /\ UNCHANGED <<searchId, normVars, cliVars, colorVars, partVars, scaleVars,
                   authVars, httpVars, paddingClasses>>

\* The queue is empty: return null
FindNothing ==
    /\ foundNode = NotYet
    /\ Len(bfsQueue) = 0
    /\ foundNode' = Null
    /\ UNCHANGED <<searchId, bfsQueue, normVars, cliVars, colorVars, partVars,
                   scaleVars, authVars, httpVars, paddingClasses>>

NextFind == FindVisit \/ FindNothing

\* The loop is synchronous code: it goes on as long as it has a turn to take.
SpecFind == InitFind /\ [][NextFind]_vars /\ WF_vars(NextFind)

----------------------------------------------------------------------------
(* FigmaClient.request *)

\* An Error of a message, raised.
Raised(message) == [t |-> "error", v |-> message]

\* The text of a body that is not JSON.
NotJson == [t |-> "text", v |-> "<html>Bad Gateway</html>"]

\* The message of the SyntaxError response.json() raises on such a body.
SyntaxErrorMessage == "Unexpected token < in JSON at position 0"

\* The reason phrase of a status.
StatusText(status) ==
    CASE status = 200 -> "OK"
      [] status = 201 -> "Created"
      [] status = 301 -> "Moved Permanently"
      [] status = 400 -> "Bad Request"
      [] status = 403 -> "Forbidden"
      [] status = 404 -> "Not Found"
      [] status = 429 -> "Too Many Requests"
      [] status = 500 -> "Internal Server Error"

\* What fetch answers: it raises (no connection, no name, a time-out), or
\* gives a response of a status and a body, JSON or not.
Replies ==
    {Raised(m) : m \in {"request to https://api.figma.com/v1/files/KEY failed, reason: getaddrinfo ENOTFOUND api.figma.com",
                        "network timeout at: https://api.figma.com/v1/files/KEY",
                        "socket hang up"}}
    \cup {[t |-> "response", status |-> st, body |-> body] :
            st   \in {200, 201, 301, 400, 403, 404, 429, 500},
            body \in {NotJson, Null, Str("error"),
                      Obj([name |-> Str("File"), document |-> Obj(PlainFrame)]),
                      Obj([status |-> Num(404), err |-> Str("Not found")]),
                      Obj([status |-> Num(403), err |-> Str("Invalid token")]),
                      Obj([status |-> Num(400)])}}

\* response.ok
Ok(reply) == reply.status >= 200 /\ reply.status <= 299

\* The outer catch, without its test: every error becomes a network error.
alwaysWrapped(message) == Raised("Network error: " \o message)

\* The outer catch of request: an error of the API is raised again as it is,
\* any other one as a network error.
caughtInRequest(message) ==
    IF Includes(message, "Figma API Error") THEN Raised(message)
    ELSE Raised("Network error: " \o message)

\* errorText of request: from the body of the response when it is JSON and
\* has properties to read, else from the status line.
errorText(reply) ==
    IF reply.body = NotJson \/ reply.body = Null
    THEN ToString(reply.status) \o " " \o StatusText(reply.status)
    ELSE ToStr(Get(reply.body, "status")) \o " "
            \o ToStr(Or(Get(reply.body, "err"), Str(StatusText(reply.status))))

\* FigmaClient.request(endpoint), fetch answering reply: the JSON of the body,
\* or an error raised.
request(reply) ==
    IF reply.t = "error" THEN caughtInRequest(reply.v)
    ELSE IF ~Ok(reply) THEN caughtInRequest("Figma API Error: " \o errorText(reply))
    ELSE IF reply.body = NotJson THEN caughtInRequest(SyntaxErrorMessage)
    ELSE reply.body

InitRequest ==
    /\ node = Obj(PlainFrame)
    /\ NothingComputed
    /\ CliIdle
    /\ ColorIdle
    /\ PartsIdle
    /\ ScaleIdle
    /\ FindIdle
    /\ AuthIdle
    /\ paddingClasses = NotYet
    /\ httpReply \in Replies
    /\ requestOutcome = NotYet

\* requestOutcome = await figma.request(endpoint)
Request ==
    /\ requestOutcome = NotYet
    /\ requestOutcome' = request(httpReply)
    /\ UNCHANGED <<httpReply, normVars, cliVars, colorVars, partVars, scaleVars,
                   findVars, authVars, paddingClasses>>

NextRequest == Request

SpecRequest == InitRequest /\ [][NextRequest]_vars

----------------------------------------------------------------------------
(* index.js: parseFigmaUrl.  What new URL(url) gives is part of the input: *)
(* a URL is its text, its pathname and the value of its node-id parameter, *)
(* and a text that is no URL makes new URL raise "Invalid URL".            *)

\* A URL of figma.com with a pathname and a node-id parameter; Absent is a
\* URL without the parameter.
Url(pathname, param) ==
    [t |-> "url",
     href |-> "https://www.figma.com" \o pathname
                 \o (IF param = Absent THEN "" ELSE "?node-id=" \o param.v),
     pathname |-> pathname,
     nodeIdParam |-> IF param = Absent THEN Null ELSE param]

\* A text that is no URL.
NoUrl(text) == [t |-> "invalid", href |-> text]

\* The pathnames of the URLs.
Pathnames ==
    {"/file/KEY/Name", "/design/KEY/Name", "/file/KEY", "/design/KEY/", "/file",
     "/file/", "/", "//file/KEY", "/proto/KEY/Name", "/files/KEY/Name",
     "/KEY/file"}

\* The node-id parameters of the URLs: in the hyphen form of the links Figma
\* shares, with one hyphen and with several, and in the colon form.
NodeIdParams ==
    {Absent, Str("1-2"), Str("1:2"), Str("12"), Str(""), Str("1-2-3"),
     Str("I5-6;7-8")}

Urls ==
    {Url(p, q) : p \in Pathnames, q \in NodeIdParams}
    \cup {NoUrl("figma.com/file/KEY"), NoUrl("")}

RECURSIVE Split(_, _)
\* s.split(sep), sep being one character
Split(s, sep) ==
    IF \A i \in 1..Len(s) : Char(s, i) # sep THEN <<s>>
    ELSE LET at == CHOOSE i \in 1..Len(s) :
                       Char(s, i) = sep /\ \A j \in 1..(i - 1) : Char(s, j) # sep
         IN  <<SubSeq(s, 1, at - 1)>> \o Split(SubSeq(s, at + 1, Len(s)), sep)

\* segments.filter(segment => segment.length > 0)
NonEmptySegment(segment) == Len(segment) > 0

RECURSIVE ReplaceAll(_, _, _)
\* s.replaceAll(sub, by)
ReplaceAll(s, sub, by) ==
    IF Includes(s, sub) THEN ReplaceAll(ReplaceFirst(s, sub, by), sub, by) ELSE s

\* The node id in the colon format, every hyphen replaced.
colonFormAll(nodeId) == Str(ReplaceAll(nodeId.v, "-", ":"))

\* nodeId.replace('-', ':'): the first hyphen is replaced
colonForm(nodeId) == Str(ReplaceFirst(nodeId.v, "-", ":"))

\* parseFigmaUrl(url): {fileKey, nodeId}, or an error raised
parseFigmaUrl(url) ==
    IF url.t = "invalid"
    THEN Raised("Invalid Figma URL. Please provide a valid URL from Figma.")
    ELSE LET param    == url.nodeIdParam
             nodeId   == IF Truthy(param) /\ Includes(param.v, "-")
                         THEN colonForm(param) ELSE param
             segments == SelectSeq(Split(url.pathname, "/"), NonEmptySegment)
         IN  IF Len(segments) >= 2 /\ segments[1] \in {"file", "design"}
             THEN Obj([fileKey |-> Str(segments[2]), nodeId |-> nodeId])
             ELSE Raised("Could not extract file key from URL. Supported formats: figma.com/file/KEY or figma.com/design/KEY")

InitUrl ==
    /\ node = Obj(PlainFrame)
    /\ NothingComputed
    /\ CliIdle
    /\ ColorIdle
    /\ PartsIdle
    /\ ScaleIdle
    /\ FindIdle
    /\ HttpIdle
    /\ paddingClasses = NotYet
    /\ tokenFile = Absent
    /\ authToken = NotYet
    /\ promptCount = 0
    /\ figmaUrl \in Urls
    /\ urlParts = NotYet
    /\ requestLog = <<>>

\* urlParts = parseFigmaUrl(url)
ParseUrl ==
    /\ urlParts = NotYet
    /\ urlParts' = parseFigmaUrl(figmaUrl)
    /\ UNCHANGED <<tokenFile, authToken, promptCount, figmaUrl, requestLog,
                   normVars, cliVars, colorVars, partVars, scaleVars, findVars,
                   httpVars, paddingClasses>>

NextUrl == ParseUrl

SpecUrl == InitUrl /\ [][NextUrl]_vars

----------------------------------------------------------------------------
(* index.js: extractPaddingClasses, on frames with every combination of *)
(* paddings.                                                            *)

\* The padding of a side: none, zero, paddings with a spacing class (two of
\* them with the same class), and one beyond the spacing scale.
SidePaddings == {Undefined, Num(0), Num(4), Num(7), Num(8), Num(16), Num(100)}

\* PlainFrame with the paddings that are defined.
Padded(left, right, top, bottom) ==
    Obj([k \in {s \in {"paddingLeft", "paddingRight", "paddingTop", "paddingBottom"} :
                    (CASE s = "paddingLeft" -> left [] s = "paddingRight" -> right
                       [] s = "paddingTop" -> top [] OTHER -> bottom) # Undefined}
            |-> CASE k = "paddingLeft" -> left [] k = "paddingRight" -> right
                  [] k = "paddingTop" -> top [] OTHER -> bottom]
        @@ PlainFrame)

PaddedNodes ==
    {Padded(l, r, t, b) : l \in SidePaddings, r \in SidePaddings, t \in SidePaddings,
                          b \in SidePaddings}

InitPadding ==
    /\ node \in PaddedNodes
    /\ NothingComputed
    /\ CliIdle
    /\ ColorIdle
    /\ PartsIdle
    /\ ScaleIdle
    /\ FindIdle
    /\ AuthIdle
    /\ HttpIdle
    /\ paddingClasses = NotYet

\* paddingClasses = extractPaddingClasses(node)
Padding ==
    /\ paddingClasses = NotYet
    /\ paddingClasses' = StrArr(extractPaddingClasses(node))
    /\ UNCHANGED <<normVars, cliVars, colorVars, partVars, scaleVars, findVars,
                   authVars, httpVars>>

NextPadding == Padding

SpecPadding == InitPadding /\ [][NextPadding]_vars

----------------------------------------------------------------------------
(* index.js: getAuthToken and the token file.  The file is missing or has a *)
(* text, which is JSON or not; the text of a JSON file is the document      *)
(* JSON.stringify writes and JSON.parse reads.                              *)

\* The token file with a JSON text.
JsonFile(value) == [t |-> "file", json |-> TRUE, text |-> JSONStringify(value)]

\* The token file with a text that is not JSON.
BrokenFile ==
    [t |-> "file", json |-> FALSE, text |-> [j |-> "invalid", literal |-> "figd_old"]]

\* What the token file can be when a command starts: missing, not JSON, as
\* getAuthToken wrote it, and JSON of another shape.
TokenFiles ==
    {Absent, BrokenFile, JsonFile(Obj([token |-> Str("figd_old")])),
     JsonFile(Obj(<<>>)), JsonFile(Null)}

\* What the user pastes at the prompt; validate lets no blank token through.
EnteredTokens == {"figd_new", "figd_other"}

\* The lines getAuthToken prints before it prompts.
AuthInstructions ==
    <<Str("No Figma authentication token found."),
      Str("Please follow these steps to authenticate:"),
      Str("1. Go to https://www.figma.com/developers/api"),
      Str("2. Log in and create a personal access token"),
      Str("3. Copy the token and paste it here")>>

\* getAuthToken that prompts and returns the token without saving it.
getAuthTokenUnsaved(file, entered) ==
    [token |-> Str(entered), file |-> file, prompted |-> TRUE,
     logged |-> AuthInstructions, errors |-> <<>>]

\* getAuthToken(), the token file being file and the user pasting entered
\* when prompted: the token returned, the token file afterwards, whether the
\* user was prompted, and the lines printed.  Reading .token of null raises,
\* which the catch reports like a text that is not JSON.
getAuthToken(file, entered) ==
    IF file.t = "file" /\ file.json /\ JSONParse(file.text) # Null
    THEN [token |-> IF JSONParse(file.text).t = "object"
                    THEN Get(JSONParse(file.text), "token") ELSE Undefined,
          file |-> file, prompted |-> FALSE, logged |-> <<>>, errors |-> <<>>]
    ELSE [token |-> Str(entered),
          file |-> JsonFile(Obj([token |-> Str(entered)])),
          prompted |-> TRUE,
          logged |-> AuthInstructions
                        \o <<Str("Authentication successful. Token saved.")>>,
          errors |-> IF file.t = "file"
                     THEN <<Str("Error reading auth token:")>> ELSE <<>>]

----------------------------------------------------------------------------
(* index.js: the extract command from its start, stage by stage:            *)
(* getAuthToken, parseFigmaUrl, the request of fetchNodeMetadata, then the  *)
(* formatting and the output.                                               *)

\* A response of the API.
Response(status, body) == [t |-> "response", status |-> status, body |-> body]

\* What fetch answers the request for the node id of a frame n.
CliReplies(n, id) ==
    {Raised("socket hang up"),
     Response(404, Obj([status |-> Num(404), err |-> Str("Not found")])),
     Response(403, Obj([status |-> Num(403), err |-> Str("Invalid token")])),
     Response(500, NotJson),
     Response(200, NotJson),
     Response(200, Null),
     Response(200, Obj([name |-> Str("File"), document |-> n])),
     Response(200, Obj([name |-> Str("File"),
                        nodes |-> Obj(id :> Obj([document |-> n]))])),
     Response(200, Obj([name |-> Str("File"), nodes |-> Obj(id :> Null)])),
     Response(200, Obj([name |-> Str("File"),
                        nodes |-> Obj("9:9" :> Obj([document |-> n]))])),
     Response(200, Obj([name |-> Str("File"), nodes |-> Obj(<<>>)]))}

\* The URLs the command is run on.
CliUrls ==
    {Url("/file/KEY/Name", Str("1-2")), Url("/file/KEY/Name", Absent),
     Url("/design/KEY/Name", Str("1-2")), Url("/design/KEY/Name", Absent),
     Url("/file/KEY/Name", Str("")), Url("/proto/KEY/Name", Str("1-2")),
     NoUrl("figma.com/file/KEY")}

\* The frames the command is run on.
CliNodes ==
    {Obj(PlainFrame), Obj([children |-> Arr(<<Leaf("2:1", <<>>)>>)] @@ PlainFrame)}

InitCli ==
    /\ node \in CliNodes
    /\ NothingComputed
    /\ ColorIdle
    /\ PartsIdle
    /\ ScaleIdle
    /\ FindIdle
    /\ HttpIdle
    /\ paddingClasses = NotYet
    /\ options \in {[format |-> formatOption(flag), optimize |-> opt, output |-> out] :
                       flag \in {Absent, Str("yaml"), Str("xml")}, opt \in BOOLEAN,
                       out \in {Undefined, Str("out.txt")}}
    /\ pc = "start"
    /\ metadata = NotYet
    /\ processedData = NotYet
    /\ output = NotYet
    /\ logged = <<>>
    /\ errors = <<>>
    /\ written = <<>>
    /\ exitCode = NotYet
    /\ tokenFile \in TokenFiles
    /\ authToken = NotYet
    /\ promptCount = 0
    /\ figmaUrl \in CliUrls
    /\ urlParts = NotYet
    /\ requestLog = <<>>

\* The parts of the state a call of getAuthToken sets, from what it gives.
authenticated(auth) ==
    /\ authToken' = auth.token
    /\ tokenFile' = auth.file
    /\ promptCount' = promptCount + (IF auth.prompted THEN 1 ELSE 0)
    /\ logged' = logged \o auth.logged
    /\ errors' = errors \o auth.errors

\* const token = await getAuthToken(), first of fetchNodeMetadata
CliToken ==
    /\ pc = "start"
    /\ \E entered \in EnteredTokens : authenticated(getAuthToken(tokenFile, entered))
    /\ pc' = "authenticated"
    /\ UNCHANGED <<options, metadata, processedData, output, written, exitCode,
                   figmaUrl, urlParts, requestLog, normVars, colorVars, partVars,
                   scaleVars, findVars, httpVars, paddingClasses>>

\* The URL parsed before the token is there.
CliParseFirst ==
    /\ pc = "start"
    /\ urlParts = NotYet
    /\ urlParts' = parseFigmaUrl(figmaUrl)
    /\ IF parseFigmaUrl(figmaUrl).t = "error"
       THEN Caught(parseFigmaUrl(figmaUrl).v)
       ELSE UNCHANGED <<pc, errors, exitCode>>
    /\ UNCHANGED <<options, metadata, processedData, output, logged, written,
                   tokenFile, authToken, promptCount, figmaUrl, requestLog,
                   normVars, colorVars, partVars, scaleVars, findVars, httpVars,
                   paddingClasses>>

\* const { fileKey, nodeId } = parseFigmaUrl(url); what it raises goes
\* through both catch blocks to the one of the command.
CliParse ==
    /\ pc = "authenticated"
    /\ urlParts' = parseFigmaUrl(figmaUrl)
    /\ IF parseFigmaUrl(figmaUrl).t = "error"
       THEN Caught(parseFigmaUrl(figmaUrl).v)
       ELSE pc' = "parsed" /\ UNCHANGED <<errors, exitCode>>
    /\ UNCHANGED <<options, metadata, processedData, output, logged, written,
                   tokenFile, authToken, promptCount, figmaUrl, requestLog,
                   normVars, colorVars, partVars, scaleVars, findVars, httpVars,
                   paddingClasses>>

\* FigmaClient.file(fileKey): the endpoint requested
file(fileKey) == "/files/" \o fileKey

\* fileNodes requesting the whole file.
fileNodesWhole(fileKey, nodeId) == file(fileKey)

\* FigmaClient.fileNodes(fileKey, [nodeId]): the endpoint requested
fileNodes(fileKey, nodeId) == "/files/" \o fileKey \o "/nodes?ids=" \o nodeId

\* The catch around each request of fetchNodeMetadata: a 404 on a design URL
\* gets a message of its own, printed after three lines of advice.
fetchFailed(message) ==
    IF Includes(message, "404") /\ Includes(figmaUrl.href, "/design/")
    THEN /\ logged' = logged \o
               <<Str("The provided design URL format is not directly supported by the Figma API."),
                 Str("Please try with a file URL from the same design (click \"Share\" and copy the link)"),
                 Str("The URL should start with: https://www.figma.com/file/")>>
         /\ Caught("Could not access Figma design. Please use a file URL instead.")
    ELSE /\ Caught(message)
         /\ UNCHANGED logged

\* Object.keys(nodes).join(', '), for the one key the answers have at most.
RECURSIVE joinKeys(_)
joinKeys(keys) ==
    IF keys = {} THEN ""
    ELSE LET k == CHOOSE key \in keys : TRUE
         IN  IF keys = {k} THEN k ELSE k \o ", " \o joinKeys(keys \ {k})

\* The branch of fetchNodeMetadata for an answer without the node:
\* process.exit(1) after the lines on the standard error.
nodeMissing(nodesData) ==
    /\ errors' = errors \o
          (IF Truthy(Get(nodesData, "nodes")) /\ Keys(Get(nodesData, "nodes")) # {}
           THEN <<Str("The node ID format might be different. Available nodes:"),
                  Str(joinKeys(Keys(Get(nodesData, "nodes")))),
                  Str("Please use one of these node IDs in your URL.")>>
           ELSE <<Str("No nodes were found in the response.")>>)
    /\ exitCode' = Num(1)
    /\ pc' = "exited"

\* The answer holds the node: nodesData.nodes && nodesData.nodes[nodeId]
holdsNode(nodesData, nodeId) ==
    /\ nodesData.t = "object"
    /\ Truthy(Get(nodesData, "nodes"))
    /\ Truthy(Get(Get(nodesData, "nodes"), nodeId))

\* if (nodeId) { ... }: the request to the nodes endpoint and what follows
\* from its answer.  Reading .nodes of null raises a TypeError inside the try.
CliFetchNode ==
    /\ pc = "parsed"
    /\ Truthy(Get(urlParts, "nodeId"))
    /\ \E reply \in CliReplies(node, Get(urlParts, "nodeId").v) :
          /\ httpReply' = reply
          /\ requestOutcome' = request(reply)
          /\ IF request(reply).t = "error"
             THEN fetchFailed(request(reply).v) /\ UNCHANGED metadata
             ELSE IF request(reply) = Null
             THEN fetchFailed(TypeErrorMessage) /\ UNCHANGED metadata
             ELSE IF holdsNode(request(reply), Get(urlParts, "nodeId").v)
             THEN /\ metadata' = Get(Get(request(reply), "nodes"),
                                     Get(urlParts, "nodeId").v)
                  /\ pc' = "fetched"
                  /\ UNCHANGED <<errors, exitCode, logged>>
             ELSE /\ nodeMissing(request(reply))
                  /\ UNCHANGED <<metadata, logged>>
    /\ requestLog' = Append(requestLog,
                            fileNodes(Get(urlParts, "fileKey").v,
                                      Get(urlParts, "nodeId").v))
    /\ UNCHANGED <<options, processedData, output, written, tokenFile, authToken,
                   promptCount, figmaUrl, urlParts, normVars, colorVars, partVars,
                   scaleVars, findVars, paddingClasses>>

\* The lines printed before the whole file is requested.
WholeFileWarning ==
    <<Str("Warning: No node ID specified. Fetching entire file, which may be slow for large files."),
      Str("For better performance, specify a node ID in the URL using ?node-id=X:Y")>>

\* The answer of the request for the whole file, after the warning.
fileFetched(outcome) ==
    IF outcome.t = "error"
    THEN IF Includes(outcome.v, "404") /\ Includes(figmaUrl.href, "/design/")
         THEN /\ logged' = logged \o WholeFileWarning \o
                    <<Str("The provided design URL format is not directly supported by the Figma API."),
                      Str("Please try with a file URL from the same design (click \"Share\" and copy the link)"),
                      Str("The URL should start with: https://www.figma.com/file/")>>
              /\ Caught("Could not access Figma design. Please use a file URL instead.")
              /\ UNCHANGED metadata
         ELSE /\ logged' = logged \o WholeFileWarning
              /\ Caught(outcome.v)
              /\ UNCHANGED metadata
    ELSE /\ logged' = logged \o WholeFileWarning
         /\ metadata' = outcome
         /\ pc' = "fetched"
         /\ UNCHANGED <<errors, exitCode>>

\* Without a node id: const fileData = await figma.file(fileKey)
CliFetchFile ==
    /\ pc = "parsed"
    /\ ~Truthy(Get(urlParts, "nodeId"))
    /\ \E reply \in CliReplies(node, "1:2") :
          /\ httpReply' = reply
          /\ requestOutcome' = request(reply)
          /\ fileFetched(request(reply))
    /\ requestLog' = Append(requestLog, file(Get(urlParts, "fileKey").v))
    /\ UNCHANGED <<options, processedData, output, written, tokenFile, authToken,
                   promptCount, figmaUrl, urlParts, normVars, colorVars, partVars,
                   scaleVars, findVars, paddingClasses>>

NextCli ==
    CliToken \/ CliParse \/ CliFetchNode \/ CliFetchFile \/ ExtractFormat
        \/ ExtractOutput

SpecCli == InitCli /\ [][NextCli]_vars

----------------------------------------------------------------------------
(* index.js: the auth command, and the getAuthToken of a command run after *)
(* it.                                                                     *)

\* What fetch answers the request for /v1/me.
AuthReplies ==
    {Raised("socket hang up"),
     Response(200, Obj([email |-> Str("a@b.c"), handle |-> Str("ab"), id |-> Str("7")])),
     Response(200, NotJson),
     Response(403, Obj([status |-> Num(403), err |-> Str("Invalid token")])),
     Response(500, NotJson)}

InitAuth ==
    /\ node = Obj(PlainFrame)
    /\ NothingComputed
    /\ ColorIdle
    /\ PartsIdle
    /\ ScaleIdle
    /\ FindIdle
    /\ HttpIdle
    /\ paddingClasses = NotYet
    /\ options \in {[reset |-> r] : r \in BOOLEAN}
    /\ pc = "auth"
    /\ metadata = NotYet
    /\ processedData = NotYet
    /\ output = NotYet
    /\ logged = <<>>
    /\ errors = <<>>
    /\ written = <<>>
    /\ exitCode = NotYet
    /\ tokenFile \in TokenFiles
    /\ authToken = NotYet
    /\ promptCount = 0
    /\ figmaUrl = Null
    /\ urlParts = NotYet
    /\ requestLog = <<>>

\* if (options.reset): the token file is removed when there is one
AuthReset ==
    /\ pc = "auth"
    /\ options.reset
    /\ tokenFile' = Absent
    /\ logged' = Append(logged,
                        IF tokenFile.t = "file"
                        THEN Str("Authentication token has been reset.")
                        ELSE Str("No authentication token found to reset."))
    /\ pc' = "reset"
    /\ UNCHANGED <<options, metadata, processedData, output, errors, written,
                   exitCode, authToken, promptCount, figmaUrl, urlParts,
                   requestLog, normVars, colorVars, partVars, scaleVars, findVars,
                   httpVars, paddingClasses>>

\* const token = await getAuthToken(), after the reset or without one
AuthToken ==
    /\ pc = "reset" \/ (pc = "auth" /\ ~options.reset)
    /\ \E entered \in EnteredTokens : authenticated(getAuthToken(tokenFile, entered))
    /\ pc' = "verifying"
    /\ UNCHANGED <<options, metadata, processedData, output, written, exitCode,
                   figmaUrl, urlParts, requestLog, normVars, colorVars, partVars,
                   scaleVars, findVars, httpVars, paddingClasses>>

\* The lines printed between getAuthToken and the request for /v1/me.
VerifyLines ==
    IF options.reset
    THEN <<Str("New authentication token saved successfully."),
           Str("Verifying new token...")>>
    ELSE <<Str("Verifying token by fetching user info...")>>

\* The lines on the standard error for an answer that is not ok.
NotOkLines ==
    <<Str("API verification failed. Your token may be invalid or expired.")>>
        \o (IF options.reset THEN <<>>
            ELSE <<Str("Please try re-authenticating with: figma-to-code auth --reset")>>)

\* The request for /v1/me with the token: the process exits with 1 when the
\* answer is not ok, and when fetch or response.json() raises.
AuthVerify ==
    /\ pc = "verifying"
    /\ \E reply \in AuthReplies :
          /\ httpReply' = reply
          /\ IF reply.t = "error"
             THEN /\ errors' = Append(errors, Str("Authentication error: " \o reply.v))
                  /\ exitCode' = Num(1)
                  /\ logged' = logged \o VerifyLines
             ELSE IF ~Ok(reply)
             THEN /\ errors' = errors \o NotOkLines
                  /\ exitCode' = Num(1)
                  /\ logged' = logged \o VerifyLines
             ELSE IF reply.body = NotJson
             THEN /\ errors' = Append(errors,
                        Str("Authentication error: " \o SyntaxErrorMessage))
                  /\ exitCode' = Num(1)
                  /\ logged' = logged \o VerifyLines
             ELSE /\ logged' = logged \o VerifyLines \o
                        <<Str("Authentication verified successfully!"),
                          Str("User info:"),
                          Str("- Email: " \o ToStr(Get(reply.body, "email"))),
                          Str("- Handle: " \o ToStr(Get(reply.body, "handle"))),
                          Str("- ID: " \o ToStr(Get(reply.body, "id")))>>
                  /\ exitCode' = Num(0)
                  /\ UNCHANGED errors
    /\ requestLog' = Append(requestLog, "/v1/me")
    /\ pc' = "exited"
    /\ UNCHANGED <<options, metadata, processedData, output, written, tokenFile,
                   authToken, promptCount, figmaUrl, urlParts, requestOutcome,
                   normVars, colorVars, partVars, scaleVars, findVars,
                   paddingClasses>>

\* The getAuthToken of the command run next.
LaterToken ==
    /\ pc = "exited"
    /\ \E entered \in EnteredTokens : authenticated(getAuthToken(tokenFile, entered))
    /\ pc' = "later"
    /\ UNCHANGED <<options, metadata, processedData, output, written, exitCode,
                   figmaUrl, urlParts, requestLog, normVars, colorVars, partVars,
                   scaleVars, findVars, httpVars, paddingClasses>>

NextAuth == AuthReset \/ AuthToken \/ AuthVerify \/ LaterToken

SpecAuth == InitAuth /\ [][NextAuth]_vars

----------------------------------------------------------------------------
(* Properties of the normaliser, checked under Spec *)

\* Some individual corner radius of the raw node is defined.
AnyCornerDefined(n) ==
    \E k \in {"topLeftRadius", "topRightRadius", "bottomLeftRadius",
              "bottomRightRadius"} : Get(n, k) # Undefined

\* C1: the normalised node never has both cornerRadius and cornerRadii; a raw
\* node with an individual corner radius gives cornerRadii and no
\* cornerRadius, any other raw node gives no cornerRadii.
C1_CornerKeysExclusive ==
    Returned(properties) =>
        /\ ~({"cornerRadius", "cornerRadii"} \subseteq Keys(properties))
        /\ AnyCornerDefined(node) =>
               /\ "cornerRadii" \in Keys(properties)
               /\ "cornerRadius" \notin Keys(properties)
        /\ ~AnyCornerDefined(node) => "cornerRadii" \notin Keys(properties)

\* C4: none of extractNodeProperties, generateAIPrompt on its result and
\* optimizeFigmaData raises an exception, whatever optional sub-object the raw
\* node is missing.
C4_NeverRaises ==
    /\ ~IsThrow(properties)
    /\ ~IsThrow(prompt)
    /\ ~IsThrow(optimized)

RECURSIVE HoldsNull(_)
\* Some key of the value, or some element of an array in it, at any depth,
\* holds null.
HoldsNull(x) ==
    CASE x.t = "object" ->
           \E k \in DOMAIN x.v : x.v[k] = Null \/ HoldsNull(x.v[k])
      [] x.t = "array" ->
           \E i \in 1..Len(x.v) : x.v[i] = Null \/ HoldsNull(x.v[i])
      [] OTHER -> FALSE

\* C5: no key of the normalised node holds null, at any depth.
C5_NoNullValue == Returned(properties) => ~HoldsNull(properties)

\* C6: parsing the JSON text of the normalised node gives the normalised node
\* back, with the same keys.
C6_JsonRoundTrip == parsed # NotYet => parsed = properties

\* C7: the normalised node has the id and the type of the raw node, and its
\* visible is false when the raw node's visible is the boolean false and true
\* in every other case.
C7_IdTypeVisible ==
    Returned(properties) =>
        /\ Get(properties, "id") = Get(node, "id")
        /\ Get(properties, "type") = Get(node, "type")
        /\ "visible" \in Keys(properties)
        /\ IF "visible" \in Keys(node) /\ node.v["visible"] = Bool(FALSE)
           THEN properties.v["visible"] = Bool(FALSE)
           ELSE properties.v["visible"] = Bool(TRUE)

\* C7, reached: a raw node whose visible is the boolean false has been
\* normalised.
C7_Witness ==
    /\ Returned(properties)
    /\ Get(node, "visible") = Bool(FALSE)
    /\ Get(properties, "visible") = Bool(FALSE)

RECURSIVE ChildrenKept(_, _)
\* The normalised node p has children exactly when the raw node n has a
\* non-empty list of them; the two lists are then as long, the i-th
\* normalised child is the normal form of the i-th raw child, and the same
\* holds of each child.
ChildrenKept(n, p) ==
    LET raw == Get(n, "children")
    IN  IF raw.t = "array" /\ Len(raw.v) > 0
        THEN /\ "children" \in Keys(p)
             /\ p.v["children"].t = "array"
             /\ Len(p.v["children"].v) = Len(raw.v)
             /\ \A i \in 1..Len(raw.v) :
                    /\ p.v["children"].v[i] = extractNodeProperties(raw.v[i])
                    /\ ChildrenKept(raw.v[i], p.v["children"].v[i])
        ELSE "children" \notin Keys(p)

\* C8: the normalised node has a children key exactly when the raw node has a
\* non-empty list of children, and its children are the normal forms of the raw
\* children, in the original order, at every depth.
C8_ChildrenInOrder == Returned(properties) => ChildrenKept(node, properties)

\* C8, reached: a node with two different children, one of which has children
\* of its own, has been normalised.
C8_Witness ==
    /\ Returned(properties)
    /\ NonEmpty(Get(node, "children"))
    /\ Len(Get(node, "children").v) = 2
    /\ Get(node, "children").v[1] # Get(node, "children").v[2]
    /\ NonEmpty(Get(Get(node, "children").v[2], "children"))
    /\ "children" \in Keys(properties)

\* The raw node of the example: a 100 by 40 frame named Btn, with a blue
\* background and a corner radius of 4.
ExampleNode ==
    Obj([id |-> Str("1:1"), name |-> Str("Btn"), type |-> Str("FRAME"),
         absoluteBoundingBox |-> Obj([x |-> Num(0), y |-> Num(0),
                                      width |-> Num(100), height |-> Num(40)]),
         backgroundColor |-> Obj([r |-> Num(0), g |-> Milli(400), b |-> Num(1),
                                  a |-> Num(1)]),
         cornerRadius |-> Num(4)])

\* The normalised node of the example.
ExampleProperties ==
    Obj([id |-> Str("1:1"), name |-> Str("Btn"), type |-> Str("FRAME"),
         visible |-> Bool(TRUE),
         position |-> Obj([x |-> Num(0), y |-> Num(0)]),
         size |-> Obj([width |-> Num(100), height |-> Num(40)]),
         backgroundColor |-> Str("#0066ff"),
         cornerRadius |-> Num(4)])

\* The prompt of the example: between the opening and the closing sentences,
\* the heading of the node and its six lines.
ExamplePrompt ==
    "Your task is to create a React component that matches the following Figma design:\n\n"
    \o "Design Element:\n"
    \o "- Type: FRAME\n"
    \o "- Name: Btn\n"
    \o "- Width: 100px\n"
    \o "- Height: 40px\n"
    \o "- Background Color: #0066ff\n"
    \o "- Border Radius: 4\n"
    \o "\nThe component should be written in React with Tailwind CSS.\n"
    \o "Assume that the host project uses React and Tailwind CSS, and you can reuse any existing components or styles from the project's scope.\n"
    \o "Generate the complete React component code.\n"

\* C9: the example node is normalised to exactly id, name, type, visible,
\* position, size, backgroundColor "#0066ff" and cornerRadius 4, and its prompt
\* holds the lines Type, Name, Width, Height, Background Color and Border
\* Radius, in that order and no other line of the node.
C9_Example ==
    node = ExampleNode =>
        /\ properties # NotYet => properties = ExampleProperties
        /\ prompt # NotYet => prompt = Str(ExamplePrompt)

\* C9, reached: the example node has been normalised and rendered.
C9_Witness == node = ExampleNode /\ properties # NotYet /\ prompt # NotYet

----------------------------------------------------------------------------
(* Properties of the extract command, checked under SpecExtract *)

\* C2: without --optimize, what the extract command formats is the normal
\* form of the fetched document.
C2_RendererGetsNormalized ==
    (output # NotYet /\ ~options.optimize) =>
        processedData = extractNodeProperties(Get(metadata, "document"))

\* The formats the documentation of the program lists.
DocumentedFormats ==
    {Str("ai-prompt"), Str("json"), Str("yaml"), Str("bullet"), Str("summary")}

\* The texts the command has put out: the files written and the texts printed.
BlobCount ==
    Len(written) + Cardinality({i \in 1..Len(logged) : logged[i] = output})

\* C3: once the document is fetched and processed, the command puts out
\* exactly one text and ends with 0 for each of ai-prompt, json, yaml, bullet
\* and summary; for any other format it reports an error, ends with 1 and
\* puts out nothing.
C3_FormatsAccepted ==
    (/\ pc = "exited"
     /\ metadata # NotYet
     /\ ~(options.optimize /\ IsThrow(optimizeFigmaData(metadata)))) =>
        IF options.format \in DocumentedFormats
        THEN exitCode = Num(0) /\ BlobCount = 1 /\ errors = <<>>
        ELSE exitCode = Num(1) /\ BlobCount = 0 /\ errors # <<>>

----------------------------------------------------------------------------
(* Properties of formatColor, checked under SpecColor *)

\* The integer nearest to 255 times a channel given in thousandths, the
\* upper one of two that are as near.
Nearest(c) ==
    CHOOSE n \in 0..255 : 2000 * n - 1000 <= 510 * c /\ 510 * c < 2000 * n + 1000

\* Two lower-case hexadecimal digits.
TwoHex(n) == HexDigits[(n \div 16) + 1] \o HexDigits[(n % 16) + 1]

\* The alphas of the model, as JavaScript writes them.
AlphaText(a) ==
    CASE a = Milli(0)    -> "0"
      [] a = Milli(250)  -> "0.25"
      [] a = Milli(500)  -> "0.5"
      [] a = Milli(1000) -> "1"

\* What formatColor is to return for a colour, the components of rgba(...)
\* being separated by sep.
ColorText(c, sep) ==
    LET r == Nearest(Get(c, "r").v)
        g == Nearest(Get(c, "g").v)
        b == Nearest(Get(c, "b").v)
    IN  IF Get(c, "a") \in {Undefined, Milli(1000)}
        THEN "#" \o TwoHex(r) \o TwoHex(g) \o TwoHex(b)
        ELSE "rgba(" \o ToString(r) \o sep \o ToString(g) \o sep \o ToString(b)
                     \o sep \o AlphaText(Get(c, "a")) \o ")"

----------------------------------------------------------------------------
(* Properties of the prompt and of the optimiser, checked under Spec *)

\* C11: in the prompt of a normalised node without children, the Border
\* Radius line is there exactly when the node has cornerRadius or cornerRadii
\* (a cornerRadius of 0 included), the Gap line exactly when layout.spacing is
\* there (0 included), the Border line exactly when strokes is not empty, and
\* no line holds "undefined" for a field that is absent.
C11_LinesIffPresent ==
    (Returned(properties) /\ Returned(prompt) /\ "children" \notin Keys(properties)) =>
        /\ Includes(prompt.v, "- Border Radius: ")
               <=> (\/ Get(properties, "cornerRadius") # Undefined
                    \/ Get(properties, "cornerRadii") # Undefined)
        /\ Includes(prompt.v, "- Gap: ")
               <=> Get(Get(properties, "layout"), "spacing") # Undefined
        /\ Includes(prompt.v, "- Border: ") <=> NonEmpty(Get(properties, "strokes"))
        /\ ~Includes(prompt.v, "undefined")

\* The argument of optimizeFigmaData has a document.
HasDocument(x) == x.t = "object" /\ Get(x, "document").t = "object"

\* C12: what optimizeFigmaData returns is its argument when the argument is
\* null, undefined or has no document; otherwise it is a record of
\* originalData, which is the argument, and component, whose id, name and type
\* are those of the document and whose children is a list.
C12_OptimizePassthrough ==
    Returned(optimized) =>
        IF ~HasDocument(rawResponse)
        THEN optimized = rawResponse
        ELSE /\ Keys(optimized) = {"originalData", "component"}
             /\ Get(optimized, "originalData") = rawResponse
             /\ \A k \in {"id", "name", "type"} :
                    Get(Get(optimized, "component"), k)
                        = Get(Get(rawResponse, "document"), k)
             /\ Get(Get(optimized, "component"), "children").t = "array"

\* C12, reached: a document without children has been optimised, and its
\* component has an empty list of children.
C12_Witness ==
    /\ Returned(optimized)
    /\ HasDocument(rawResponse)
    /\ "children" \notin Keys(Get(rawResponse, "document"))
    /\ Get(Get(optimized, "component"), "children") = Arr(<<>>)

\* C12, the other case reached: null has been handed to optimizeFigmaData and
\* has come back.
C12_PassedThrough == rawResponse = Null /\ optimized = Null

----------------------------------------------------------------------------
(* Properties of the parts of the optimiser, checked under SpecParts *)

\* The kinds of guessComponentType, in the order of their rules.
RuleKinds == <<"button", "modal", "card", "input", "alert", "confirmation-dialog">>

\* The words of the rules: a rule matches a name that holds one of its words,
\* whatever the case of the letters.
RuleWords ==
    <<{"button"}, {"modal", "dialog"}, {"card"}, {"input", "field", "form"},
      {"alert", "notification", "toast"}, {"cancel"}>>

\* The name of the node, in lower case; the empty string when it has none.
LowerName(n) == IF "name" \in Keys(n) THEN ToLowerCase(n.v["name"].v) ELSE ""

\* Rule i matches the name of the node.
NameMatches(i, n) == \E w \in RuleWords[i] : Includes(LowerName(n), w)

\* Rule i matches the node by something else than its name: the button rule
\* an instance whose name holds "btn", the modal rule a node with a child
\* whose name holds "modal", the card rule a node with children and a
\* positive corner radius.
ShapeMatches(i, n) ==
    CASE i = 1 -> Get(n, "type") = Str("INSTANCE") /\ Includes(LowerName(n), "btn")
      [] i = 2 -> /\ "children" \in Keys(n)
                  /\ \E j \in 1..Len(n.v["children"].v) :
                         Includes(LowerName(n.v["children"].v[j]), "modal")
      [] i = 3 -> /\ "children" \in Keys(n)
                  /\ "cornerRadius" \in Keys(n)
                  /\ n.v["cornerRadius"].v > 0
      [] OTHER -> FALSE

\* The kind of the first rule that matches, "unknown" when none does.
FirstKind(Matches(_, _), n) ==
    IF \E i \in 1..6 : Matches(i, n)
    THEN RuleKinds[CHOOSE i \in 1..6 :
                       Matches(i, n) /\ \A j \in 1..(i - 1) : ~Matches(j, n)]
    ELSE "unknown"

RuleMatches(i, n) == NameMatches(i, n) \/ ShapeMatches(i, n)

\* C13: guessComponentType gives the kind of the first rule that matches, in
\* the order button, modal/dialog, card, input/field/form,
\* alert/notification/toast, cancel, and unknown when none matches: modal for
\* "Cancel Modal", button for "Cancel Button".
C13_RuleOrder ==
    guessedType # NotYet =>
        /\ guessedType = Str(FirstKind(RuleMatches, node))
        /\ Get(node, "name") = Str("Cancel Modal") => guessedType = Str("modal")
        /\ Get(node, "name") = Str("Cancel Button") => guessedType = Str("button")

\* C13, reached: a node named "Cancel Modal", which the modal and the cancel
\* rule match, has been classified.
C13_Witness ==
    /\ Get(node, "name") = Str("Cancel Modal")
    /\ NameMatches(2, node) /\ NameMatches(6, node)
    /\ guessedType = Str("modal")

\* C14: the kind guessComponentType gives is the kind of the first rule that
\* matches the name of the node, whatever its type, corner radius and children
\* are: confirmation-dialog for a name that holds "cancel" and no word of an
\* earlier rule.
C14_NameAlone == guessedType # NotYet => guessedType = Str(FirstKind(NameMatches, node))

\* A fill of type SOLID.
IsSolid(fill) == Get(fill, "type") = Str("SOLID")

\* "rgb(R, G, B)" of the colour of a fill.
RgbText(fill) ==
    "rgb(" \o ToString(Nearest(Get(Get(fill, "color"), "r").v)) \o ", "
           \o ToString(Nearest(Get(Get(fill, "color"), "g").v)) \o ", "
           \o ToString(Nearest(Get(Get(fill, "color"), "b").v)) \o ")"

\* The hints of a node that has a name: the name, the four fixed hints when
\* the name holds "cancel", the component hint of an instance, and one hint
\* of the colours of the SOLID fills when there is one.
ExpectedHints(n) ==
    LET name  == n.v["name"].v
        solid == IF "fills" \in Keys(n) THEN SelectSeq(n.v["fills"].v, IsSolid) ELSE <<>>
    IN  <<Str(name)>>
        \o (IF Includes(ToLowerCase(name), "cancel")
            THEN <<Str("Cancel"), Str("CancelDialog"), Str("Confirmation"),
                   Str("ConfirmationDialog")>>
            ELSE <<>>)
        \o (IF Get(n, "type") = Str("INSTANCE")
            THEN <<Str("Component: " \o name)>> ELSE <<>>)
        \o (IF Len(solid) > 0
            THEN <<Str("Colors: " \o Join([i \in 1..Len(solid) |-> RgbText(solid[i])],
                                          ", "))>>
            ELSE <<>>)

\* C15: the hints of a node start with its name, the empty name included;
\* then come Cancel, CancelDialog, Confirmation, ConfirmationDialog exactly
\* when the name holds "cancel", "Component: <name>" exactly when the type is
\* INSTANCE, and one "Colors: ..." hint of every SOLID fill, in the order of
\* the fills, exactly when there is a SOLID fill.
C15_Hints ==
    (Returned(componentHints) /\ "name" \in Keys(node)) =>
        componentHints = Arr(ExpectedHints(node))

\* A drop shadow that is not hidden.
IsOpenShadow(effect) ==
    Get(effect, "type") = Str("DROP_SHADOW") /\ Get(effect, "visible") # Bool(FALSE)

\* The tier a shadow matches, "" when it matches none: shadow-xl for a radius
\* of 16 and a vertical offset of 8 at least, else shadow-lg for 8 and 4, else
\* shadow-md for a radius of 3.
TierOf(shadow) ==
    LET radius == Get(shadow, "radius").v
        y      == Get(Get(shadow, "offset"), "y").v
    IN  IF radius >= 16000 /\ y >= 8000 THEN "shadow-xl"
        ELSE IF radius >= 8000 /\ y >= 4000 THEN "shadow-lg"
        ELSE IF radius >= 3000 THEN "shadow-md"
        ELSE ""

\* A shadow that matches a tier.
HasTier(shadow) == TierOf(shadow) # ""

\* The effects all have an offset.
AllOffset(effects) == \A i \in 1..Len(effects) : "offset" \in Keys(effects[i])

RECURSIVE TextsOf(_)
\* The TEXT nodes of the tree of a node.
TextsOf(n) ==
    (IF Get(n, "type") = Str("TEXT") THEN {n} ELSE {})
    \cup (IF "children" \in Keys(n)
          THEN UNION {TextsOf(n.v["children"].v[i]) : i \in 1..Len(n.v["children"].v)}
          ELSE {})

\* The colour of the first fill of a node, when it has one.
FirstFillColors(n) ==
    IF NonEmpty(Get(n, "fills")) /\ Get(Get(n, "fills").v[1], "color").t = "object"
    THEN {Get(Get(n, "fills").v[1], "color")} ELSE {}

\* The colours a custom colour may come from: the background of the node and
\* the first fills of the texts of its tree, with the prefix of their class.
GuideColors(n) ==
    (IF Get(n, "backgroundColor").t = "object"
     THEN {<<Get(n, "backgroundColor"), "bg">>} ELSE {})
    \cup {<<c, "text">> : c \in UNION {FirstFillColors(t) : t \in TextsOf(n)}}

\* The colours among them that have no Tailwind class, as "#rrggbb".
Unclassified(n) ==
    {rgbToHex(Get(cp[1], "r"), Get(cp[1], "g"), Get(cp[1], "b")) :
        cp \in {x \in GuideColors(n) : colorToTailwindClass(x[1], x[2]) = Null}}

\* C20: every custom colour of the implementation guide is the background of
\* the node or the first fill of a text of its tree, and a colour to which
\* colorToTailwindClass gives no class; when every such colour has a class
\* there is no custom colour.
C20_CustomColorsUnclassified ==
    Returned(implementationGuide) =>
        LET customColors ==
                Get(Get(implementationGuide, "tailwindConfig"), "customColors").v
        IN  \A i \in 1..Len(customColors) :
                /\ Keys(customColors[i]) = {"name", "value"}
                /\ customColors[i].v["value"].v \in Unclassified(node)

\* C20, reached: the guide of a node with a white background and a brown text
\* has one custom colour, the brown.
C20_Witness ==
    /\ Returned(implementationGuide)
    /\ Get(node, "backgroundColor") = White
    /\ Get(node, "children") = Arr(<<Text("2:1", Arr(<<Solid(Brown)>>))>>)
    /\ Len(Get(Get(implementationGuide, "tailwindConfig"), "customColors").v) = 1

----------------------------------------------------------------------------
(* Properties of the Tailwind ladders, checked under SpecScale *)

\* The spacing ladder: the upper bounds of its rungs, in pixels, and their
\* labels.
RungBounds == <<1, 2, 3, 5, 7, 10, 14, 18, 22, 26, 34, 42, 56>>
RungLabels ==
    <<"0.5", "1", "1.5", "2", "3", "4", "5", "6", "7", "8", "10", "12", "16">>

\* The label of the first rung whose bound a number of thousandths of a pixel
\* does not exceed; Null, no class, when it exceeds them all.
FirstRung(m) ==
    IF \E i \in 1..Len(RungBounds) : m <= 1000 * RungBounds[i]
    THEN Str(RungLabels[CHOOSE i \in 1..Len(RungBounds) :
                           /\ m <= 1000 * RungBounds[i]
                           /\ \A j \in 1..(i - 1) : m > 1000 * RungBounds[j]])
    ELSE Null

\* The place of a label on the ladder.
RungOf(label) == CHOOSE i \in 1..Len(RungLabels) : RungLabels[i] = label.v

\* C17, as stated: for every number px, pxToTailwindSpacing gives the label of
\* the first rung whose bound px does not exceed, and no class above 56.
C17_AsStated == spacing # NotYet => spacing = FirstRung(scaleInput.v)

\* C17: for every px above 0, pxToTailwindSpacing gives the label of the first
\* rung of 1, 2, 3, 5, 7, 10, 14, 18, 22, 26, 34, 42, 56 whose bound px does
\* not exceed; it gives no class for px above 56 and for px of 0 or less.  So
\* 7 gives "3", 8 gives "4", 57 gives no class, and between 0 and 56 a larger
\* px never gives a lower rung.
C17_SpacingLadder ==
    spacing # NotYet =>
        /\ spacing = IF scaleInput.v <= 0 THEN Null ELSE FirstRung(scaleInput.v)
        /\ scaleInput = Num(7) => spacing = Str("3")
        /\ scaleInput = Num(8) => spacing = Str("4")
        /\ scaleInput = Num(57) => spacing = Null
        /\ spacing # Null =>
               \A q \in ScaleInputs :
                   (0 < q.v /\ q.v <= scaleInput.v) =>
                       RungOf(pxToTailwindSpacing(q)) <= RungOf(spacing)

\* C17, reached: 7 pixels, the bound of a rung, have been put on the ladder
\* and are on that rung.
C17_Witness == scaleInput = Num(7) /\ spacing = Str("3")

\* The rules of the letter spacing, in their order, on thousandths.
TrackingMatches(i, m) ==
    CASE i = 1 -> m <= -50
      [] i = 2 -> m <= -25
      [] i = 3 -> -10 <= m /\ m <= 10
      [] i = 4 -> m >= 25
      [] i = 5 -> m >= 50
      [] i = 6 -> m >= 100

TrackingClasses ==
    <<"tracking-tighter", "tracking-tight", "tracking-normal", "tracking-wide",
      "tracking-wider", "tracking-widest">>

\* C18: letterSpacingToTailwind gives the class of the first rule, in the
\* order tighter, tight, normal, wide, wider, widest, that the letter spacing
\* satisfies, and no class when it satisfies none; so tracking-normal from
\* -0.01 to 0.01, 0 included.
C18_TrackingRules ==
    tracking # NotYet =>
        /\ tracking =
               IF \E i \in 1..6 : TrackingMatches(i, scaleInput.v)
               THEN Str(TrackingClasses[CHOOSE i \in 1..6 :
                           /\ TrackingMatches(i, scaleInput.v)
                           /\ \A j \in 1..(i - 1) : ~TrackingMatches(j, scaleInput.v)])
               ELSE Null
        /\ scaleInput = Num(0) => tracking = Str("tracking-normal")

----------------------------------------------------------------------------
(* Properties of colorToTailwindClass, checked under SpecPalette *)

\* C19: colorToTailwindClass gives a gray class exactly when the colour, in
\* channels of 0 to 255, is neither black nor white and its three channels
\* are less than 10 apart, each pair of them.
C19_GrayIffAllClose ==
    twClass # NotYet =>
        LET r == Nearest(Get(rawColor, "r").v)
            g == Nearest(Get(rawColor, "g").v)
            b == Nearest(Get(rawColor, "b").v)
        IN  (twClass # Null /\ StartsWith(twClass.v, "bg-gray-"))
                <=> (/\ <<r, g, b>> # <<0, 0, 0>>
                     /\ <<r, g, b>> # <<255, 255, 255>>
                     /\ Abs(r - g) < 10 /\ Abs(r - b) < 10 /\ Abs(g - b) < 10)

----------------------------------------------------------------------------
(* Properties of findNodeById, checked under SpecFind *)

RECURSIVE Join2(_)
\* The sequences of a sequence, one after the other.
Join2(seqs) == IF Len(seqs) = 0 THEN <<>> ELSE Head(seqs) \o Join2(Tail(seqs))

RECURSIVE FirstByLevel(_, _)
\* The first node with the id in a level of a tree, read from left to right,
\* or else in the levels below it; Null when no level is left.
FirstByLevel(level, id) ==
    IF Len(level) = 0 THEN Null
    ELSE IF \E i \in 1..Len(level) : Get(level[i], "id") = id
    THEN level[CHOOSE i \in 1..Len(level) :
                   /\ Get(level[i], "id") = id
                   /\ \A j \in 1..(i - 1) : Get(level[j], "id") # id]
    ELSE FirstByLevel(
             Join2([i \in 1..Len(level) |->
                       IF "children" \in Keys(level[i])
                       THEN level[i].v["children"].v ELSE <<>>]),
             id)

\* C21: findNodeById ends on every document, and what it returns is the first
\* node with the id level by level, each level from left to right: the
\* shallowest and then leftmost of the nodes that share the id, and null when
\* no node has it.
C21_BreadthFirst ==
    /\ [](foundNode # NotYet => foundNode = FirstByLevel(<<node>>, searchId))
    /\ <>(foundNode # NotYet)

\* C21, reached: of a node at depth 2 in the first subtree and a node of the
\* same id at depth 1 after it, the second has been returned.
C21_Witness ==
    /\ node = Tree("0:0", Arr(<<Tree("c", Arr(<<Tree("a", Absent)>>)),
                                Tree("a", Arr(<<Tree("b", Absent)>>))>>))
    /\ searchId = Str("a")
    /\ foundNode = Tree("a", Arr(<<Tree("b", Absent)>>))

----------------------------------------------------------------------------
(* Properties of the component instances, checked under Spec *)

\* C22: the normalised node of an INSTANCE has the key componentId only if the
\* raw node has it, and the key componentProperties only if the raw node has
\* it; the normalised node of any other type has neither key.
C22_InstanceKeys ==
    Returned(properties) =>
        \A k \in {"componentId", "componentProperties"} :
            k \in Keys(properties) =>
                Get(node, "type") = Str("INSTANCE") /\ k \in Keys(node)

----------------------------------------------------------------------------
(* Properties of FigmaClient.request, checked under SpecRequest *)

\* C28: request returns a value exactly for a response of a status from 200
\* to 299 whose body is JSON, and the value is that JSON; for a response of
\* another status it raises an error whose message starts with "Figma API
\* Error: ", and for every other failure one whose message starts with
\* "Network error: "; no message starts with one prefix and holds the other.
C28_RequestErrors ==
    requestOutcome # NotYet =>
        IF httpReply.t = "response" /\ Ok(httpReply) /\ httpReply.body # NotJson
        THEN requestOutcome = httpReply.body
        ELSE /\ requestOutcome.t = "error"
             /\ IF httpReply.t = "response" /\ ~Ok(httpReply)
                THEN StartsWith(requestOutcome.v, "Figma API Error: ")
                ELSE StartsWith(requestOutcome.v, "Network error: ")
             /\ ~(/\ Includes(requestOutcome.v, "Figma API Error: ")
                  /\ Includes(requestOutcome.v, "Network error: "))

\* C28, reached: a 404 whose body is JSON has been raised as an error of the
\* API, with the status and the err of the body.
C28_Witness ==
    /\ httpReply = [t |-> "response", status |-> 404,
                    body |-> Obj([status |-> Num(404), err |-> Str("Not found")])]
    /\ requestOutcome = Raised("Figma API Error: 404 Not found")

----------------------------------------------------------------------------
(* Properties of parseFigmaUrl, checked under SpecUrl *)

\* The segments of the path of a URL that are not empty.
PathSegments(url) == SelectSeq(Split(url.pathname, "/"), NonEmptySegment)

\* parseFigmaUrl is to return for the URL: it is a URL, its path has two
\* segments at least and the first is file or design.
HasFileKey(url) ==
    /\ url.t = "url"
    /\ Len(PathSegments(url)) >= 2
    /\ PathSegments(url)[1] \in {"file", "design"}

\* C29: parseFigmaUrl returns exactly when the path has two segments at least
\* and the first is file or design, and raises otherwise; the fileKey is the
\* second segment; the nodeId is null without a node-id parameter, and else
\* the parameter with every hyphen replaced by a colon, so it holds no hyphen.
C29_ParsedUrl ==
    urlParts # NotYet =>
        IF HasFileKey(figmaUrl)
        THEN /\ urlParts.t = "object"
             /\ Get(urlParts, "fileKey") = Str(PathSegments(figmaUrl)[2])
             /\ IF figmaUrl.nodeIdParam = Null
                THEN Get(urlParts, "nodeId") = Null
                ELSE /\ ~Includes(Get(urlParts, "nodeId").v, "-")
                     /\ Get(urlParts, "nodeId") = colonFormAll(figmaUrl.nodeIdParam)
        ELSE urlParts.t = "error"

----------------------------------------------------------------------------
(* Properties of extractPaddingClasses, checked under SpecPadding *)

\* The places of the list of padding classes whose class starts with a prefix.
PaddingPlaces(prefix) ==
    {i \in 1..Len(paddingClasses.v) : StartsWith(paddingClasses.v[i].v, prefix)}

\* The side of the node has a padding with a spacing class.
SideMaps(key) ==
    Get(node, key) # Undefined /\ Truthy(pxToTailwindSpacing(Get(node, key)))

\* The places of the list whose class covers a side, the side being named
\* by the prefix of its own class and of the shorthand of its axis.
Covering(own, axis) ==
    PaddingPlaces("p-") \cup PaddingPlaces(axis) \cup PaddingPlaces(own)

\* C30: the list of extractPaddingClasses holds no shorthand with a class it
\* subsumes (p-N stands alone, px-N comes with no pl- or pr-, py-N with no pt-
\* or pb-), and each side whose padding has a spacing class is covered by
\* exactly one class of the list.
C30_NoSubsumedPadding ==
    paddingClasses # NotYet =>
        /\ PaddingPlaces("p-") # {} => Len(paddingClasses.v) = 1
        /\ PaddingPlaces("px-") # {} =>
               PaddingPlaces("pl-") = {} /\ PaddingPlaces("pr-") = {}
        /\ PaddingPlaces("py-") # {} =>
               PaddingPlaces("pt-") = {} /\ PaddingPlaces("pb-") = {}
        /\ SideMaps("paddingLeft") => Cardinality(Covering("pl-", "px-")) = 1
        /\ SideMaps("paddingRight") => Cardinality(Covering("pr-", "px-")) = 1
        /\ SideMaps("paddingTop") => Cardinality(Covering("pt-", "py-")) = 1
        /\ SideMaps("paddingBottom") => Cardinality(Covering("pb-", "py-")) = 1

\* Left and right paddings were folded into px- while top and bottom, which
\* differ, kept their own classes.
C30_Witness ==
    /\ paddingClasses # NotYet
    /\ PaddingPlaces("px-") # {}
    /\ PaddingPlaces("pt-") # {}
    /\ PaddingPlaces("pb-") # {}

----------------------------------------------------------------------------
(* Properties of the extract command from its start, checked under SpecCli *)

\* A line of the output that is the rendered text, not a message.
IsBlob(line) == DOMAIN line # {"t", "v"}

\* The places of the standard output where a rendered text was printed.
BlobsPrinted == {i \in 1..Len(logged) : IsBlob(logged[i])}

\* The invocation failed at a stage: the URL did not parse, the request
\* failed, the answer lacked the node, optimizeFigmaData raised, or the format
\* is not supported.
StageFailed ==
    \/ urlParts # NotYet /\ urlParts.t = "error"
    \/ requestOutcome # NotYet /\ requestOutcome.t = "error"
    \/ requestOutcome # NotYet /\ metadata = NotYet
    \/ processedData # NotYet /\ output = NotYet

Reported(text) ==
    \E i \in 1..Len(errors) : StartsWith(errors[i].v, "Error: " \o text)

\* C24: the stages of an extract invocation come in the order token, URL,
\* fetch, optimize and format, output: each stage has happened only when the
\* one before it has.  So an invalid URL is reported only after getAuthToken
\* has returned, the token it prompted for saved, and an unsupported format
\* only after the request has been answered.
C24_StageOrder ==
    /\ urlParts # NotYet => authToken # NotYet
    /\ requestLog # <<>> => urlParts # NotYet /\ urlParts.t = "object"
    /\ metadata # NotYet => requestLog # <<>> /\ requestOutcome # NotYet
    /\ processedData # NotYet => metadata # NotYet
    /\ output # NotYet => processedData # NotYet
    /\ (written # <<>> \/ BlobsPrinted # {}) => output # NotYet
    /\ Reported("Invalid Figma URL") \/ Reported("Could not extract file key") =>
          /\ authToken # NotYet
          /\ promptCount > 0 => tokenFile = JsonFile(Obj([token |-> authToken]))
          /\ requestLog = <<>>
    /\ Reported("Unsupported format") =>
          /\ Len(requestLog) = 1
          /\ requestOutcome # NotYet
          /\ requestOutcome.t # "error"
          /\ metadata # NotYet

\* An invalid URL was reported after the user was prompted for the token and
\* the token saved.
C24_Witness ==
    /\ Reported("Invalid Figma URL")
    /\ promptCount = 1
    /\ tokenFile = JsonFile(Obj([token |-> authToken]))

\* The parsed URL carries a node id.
CarriesNodeId ==
    /\ urlParts # NotYet
    /\ urlParts.t = "object"
    /\ Get(urlParts, "nodeId") \notin {Null, Str("")}

\* The endpoint of the nodes of the parsed URL.
NodesEndpoint ==
    "/files/" \o Get(urlParts, "fileKey").v \o "/nodes?ids="
        \o Get(urlParts, "nodeId").v

\* The request was answered with JSON.
AnsweredJson ==
    /\ httpReply # Null
    /\ httpReply.t = "response"
    /\ httpReply.status = 200
    /\ httpReply.body # NotJson

\* The answer has the node of the parsed URL.
AnswerHasNode ==
    /\ AnsweredJson
    /\ httpReply.body # Null
    /\ Get(httpReply.body, "nodes") # Undefined
    /\ Get(Get(httpReply.body, "nodes"), Get(urlParts, "nodeId").v)
           \notin {Undefined, Null}

\* C25: with a node id in the parsed URL fetchNodeMetadata makes one request,
\* to the nodes endpoint, and none for the whole file: the metadata is
\* nodes[nodeId] when the answer has it, the process exits with code 1 when
\* the answer has not, and the error is raised on when the request fails.  The
\* whole file is requested only for a URL without a node id.
C25_OneNodesRequest ==
    /\ CarriesNodeId => requestLog \in {<<>>, <<NodesEndpoint>>}
    /\ CarriesNodeId /\ pc # "parsed" =>
          /\ requestLog = <<NodesEndpoint>>
          /\ IF AnswerHasNode
             THEN metadata = Get(Get(httpReply.body, "nodes"),
                                 Get(urlParts, "nodeId").v)
             ELSE /\ metadata = NotYet
                  /\ pc = "exited"
                  /\ exitCode = Num(1)
                  /\ ~AnsweredJson => Reported("")
    /\ \A i \in 1..Len(requestLog) :
          ~Includes(requestLog[i], "/nodes") => ~CarriesNodeId

\* The answer to the one request lacked the node and the process exited.
C25_Witness ==
    /\ CarriesNodeId
    /\ AnsweredJson
    /\ ~AnswerHasNode
    /\ requestLog = <<NodesEndpoint>>
    /\ exitCode = Num(1)

----------------------------------------------------------------------------
(* Properties of getAuthToken, checked under SpecCli *)

\* The token file exists and its text parses as JSON.
ParsesAsJson(tokenData) == tokenData.t = "file" /\ tokenData.json

\* The token file exists and holds the token.
HoldsToken(tokenData, token) ==
    /\ ParsesAsJson(tokenData)
    /\ token.t = "string"
    /\ JSONParse(tokenData.text) # Null
    /\ JSONParse(tokenData.text).t = "object"
    /\ Get(JSONParse(tokenData.text), "token") = token

\* C26: getAuthToken returns the token of the token file, without a prompt
\* and without writing the file, whenever the file exists and parses as JSON;
\* it prompts when the file is missing or does not parse, and then returns
\* with the file written with the token it returns.  Whenever it returns, the
\* token file exists and holds the token returned.
C26_TokenFromFile ==
    [][pc = "start" /\ pc' = "authenticated" =>
          /\ IF ParsesAsJson(tokenFile)
             THEN /\ promptCount' = promptCount
                  /\ tokenFile' = tokenFile
                  /\ HoldsToken(tokenFile, authToken')
             ELSE promptCount' = promptCount + 1
          /\ HoldsToken(tokenFile', authToken')]_vars

----------------------------------------------------------------------------
(* Properties of the auth command, checked under SpecAuth *)

\* The verification of the token failed: the answer was not ok, or fetch or
\* the reading of the answer raised.
VerificationFailed ==
    /\ pc \in {"exited", "later"}
    /\ httpReply.t = "error" \/ httpReply.status # 200 \/ httpReply.body = NotJson

\* C27: auth --reset removes the stored token before it prompts, and stores
\* the token entered before it verifies it; when the verification fails the
\* process exits with 1 and the token file still holds the token entered,
\* which the command run next gets without a prompt.  The token stored before
\* the reset does not come back.
C27_ResetKeepsNewToken ==
    /\ [](options.reset /\ pc = "reset" => tokenFile = Absent /\ promptCount = 0)
    /\ [](options.reset /\ pc = "verifying" => requestLog = <<>>)
    /\ [](options.reset /\ pc \in {"verifying", "exited", "later"} =>
             /\ promptCount = 1
             /\ authToken.v \in EnteredTokens
             /\ HoldsToken(tokenFile, authToken))
    /\ [](options.reset /\ VerificationFailed => exitCode = Num(1))
    /\ [][options.reset /\ pc = "exited" /\ pc' = "later" =>
             /\ authToken' = authToken
             /\ promptCount' = promptCount
             /\ tokenFile' = tokenFile]_vars

\* After a reset over a stored token the verification failed, and the command
\* run next got the token entered.
C27_Witness ==
    /\ options.reset
    /\ VerificationFailed
    /\ pc = "later"
    /\ exitCode = Num(1)
    /\ promptCount = 1
    /\ \E i \in 1..Len(logged) : logged[i] = Str("Authentication token has been reset.")

====
